---------------------------- MODULE Spec2Model ----------------------------
(***************************************************************************)
(* Loan application lifecycle of timpamungkasudemy/jules-loan-graphql.     *)
(*                                                                         *)
(* Two revisions of the resolvers live in the repository and both are      *)
(* modelled:                                                               *)
(*   impl = "db"  : graphqlhandler/resolvers.go (Resolver methods) on top  *)
(*                  of db/db.go lines 1-198 (DBService, PostgreSQL).       *)
(*   impl = "mem" : the in-memory prototype (unnamed/part_001, the map and *)
(*                  the RWMutex of graphqlhandler/data.go).                *)
(* A behaviour runs one of them; Init chooses which.                       *)
(*                                                                         *)
(* Go values that reach the resolvers as interface{} are modelled as       *)
(* tagged values, so that a type assertion can fail as it does in Go.      *)
(* Strings are sequences of one-character strings.  A float64 amount is    *)
(* held in hundredths (5000.00 is 500000).                                 *)
(***************************************************************************)
EXTENDS Integers, Sequences, FiniteSets, TLC

VARIABLES
    impl,                  \* which revision of the resolvers serves requests
    customers,             \* table customers: committed rows, by id
    loans,                 \* table loans: committed rows, by id
    tx,                    \* per worker: the rows of its open transaction
    loanApplications,      \* data.go: map uuid -> *LoanApplicationData
    loanApplicationsMutex, \* data.go: the RWMutex ("" when free, else holder)
    uuids,                 \* number of create calls that drew their UUIDs
    req                    \* per worker: the request it serves and its result

vars == <<impl, customers, loans, tx, loanApplications, loanApplicationsMutex,
          uuids, req>>

-----------------------------------------------------------------------------
(* Bounds of the model.                                                    *)

\* create calls that get as far as drawing UUIDs
MaxCreates == 2

\* time.Now().Year() as read by validateCollateralInput
CurrentYear == 2026

\* the largest tenure handed to validateProposedLoanInput
MaxTenureArg == 63

\* Two request goroutines: every race the claims speak of is between two calls.
Workers == {"w1", "w2"}

-----------------------------------------------------------------------------
(* interface{} values                                                      *)

NilV == [t |-> "nil", n |-> 0, s |-> <<>>, b |-> FALSE, m |-> <<>>]
IntV(i) == [NilV EXCEPT !.t = "int", !.n = i]
FloatV(h) == [NilV EXCEPT !.t = "float64", !.n = h]
StrV(str) == [NilV EXCEPT !.t = "string", !.s = str]
BoolV(v) == [NilV EXCEPT !.t = "bool", !.b = v]
MapV(f) == [NilV EXCEPT !.t = "map", !.m = f]

\* m[k] of a Go map[string]interface{}: nil for a missing key or a nil map
Lookup(m, k) == IF k \in DOMAIN m THEN m[k] ELSE NilV

\* v.(string), v.(int), v.(float64), v.(bool), v.(map[string]interface{}) in
\* the two-result form: the zero value when the assertion fails
AsString(v) == IF v.t = "string" THEN v.s ELSE <<>>
AsInt(v) == IF v.t = "int" THEN v.n ELSE 0
AsFloat(v) == IF v.t = "float64" THEN v.n ELSE 0
AsMap(v) == IF v.t = "map" THEN v.m ELSE <<>>

-----------------------------------------------------------------------------
(* Character classes of the regular expressions                           *)

Lower == {"a","b","c","d","e","f","g","h","i","j","k","l","m",
          "n","o","p","q","r","s","t","u","v","w","x","y","z"}
Upper == {"A","B","C","D","E","F","G","H","I","J","K","L","M",
          "N","O","P","Q","R","S","T","U","V","W","X","Y","Z"}
Digits == {"0","1","2","3","4","5","6","7","8","9"}
Letters == Lower \cup Upper

DigitVal(c) ==
    CASE c = "0" -> 0 [] c = "1" -> 1 [] c = "2" -> 2 [] c = "3" -> 3
      [] c = "4" -> 4 [] c = "5" -> 5 [] c = "6" -> 6 [] c = "7" -> 7
      [] c = "8" -> 8 [] c = "9" -> 9

AllIn(str, from, to, class) == \A i \in from..to : str[i] \in class

-----------------------------------------------------------------------------
(* Validation helpers                                                      *)

IsLeap(y) == y % 4 = 0 /\ (y % 100 # 0 \/ y % 400 = 0)

DaysIn(y, mo) ==
    IF mo = 2 THEN (IF IsLeap(y) THEN 29 ELSE 28)
    ELSE IF mo \in {4, 6, 9, 11} THEN 30 ELSE 31

\* time.Parse("2006-01-02", dateStr) succeeds
isValidDate(dateStr) ==
    /\ Len(dateStr) = 10
    /\ AllIn(dateStr, 1, 4, Digits)
    /\ dateStr[5] = "-"
    /\ AllIn(dateStr, 6, 7, Digits)
    /\ dateStr[8] = "-"
    /\ AllIn(dateStr, 9, 10, Digits)
    /\ LET y == 1000 * DigitVal(dateStr[1]) + 100 * DigitVal(dateStr[2])
                + 10 * DigitVal(dateStr[3]) + DigitVal(dateStr[4])
           mo == 10 * DigitVal(dateStr[6]) + DigitVal(dateStr[7])
           d == 10 * DigitVal(dateStr[9]) + DigitVal(dateStr[10])
       IN  mo \in 1..12 /\ d >= 1 /\ d <= DaysIn(y, mo)

\* ^[a-zA-Z0-9._%+-]+@[a-zA-Z0-9.-]+\.[a-zA-Z]{2,}$
EmailRegexp(str) ==
    \E at \in 2..Len(str) :
        /\ str[at] = "@"
        /\ AllIn(str, 1, at - 1, Letters \cup Digits \cup {".", "_", "%", "+", "-"})
        /\ \E dot \in (at + 2)..(Len(str) - 2) :
              /\ str[dot] = "."
              /\ AllIn(str, at + 1, dot - 1, Letters \cup Digits \cup {".", "-"})
              /\ AllIn(str, dot + 1, Len(str), Letters)

isValidEmail(emailStr) ==
    IF emailStr = <<>> THEN TRUE ELSE EmailRegexp(emailStr)

NoError == "nil"

\* mutant: the city is not tested
validateAddressInput_NoCity(input) ==
    LET street == AsString(Lookup(input, "street"))
        zipcode == AsString(Lookup(input, "zipcode"))
    IN  IF Len(street) = 0 \/ Len(street) > 200
          THEN "street must be 1-200 characters"
        ELSE IF Len(zipcode) < 3 \/ Len(zipcode) > 10
          THEN "zipcode must be 3-10 characters"
        ELSE NoError

validateAddressInput(input) ==
    LET street == AsString(Lookup(input, "street"))
        city == AsString(Lookup(input, "city"))
        zipcode == AsString(Lookup(input, "zipcode"))
    IN  IF Len(street) = 0 \/ Len(street) > 200
          THEN "street must be 1-200 characters"
        ELSE IF Len(city) = 0 \/ Len(city) > 100
          THEN "city must be 1-100 characters"
        ELSE IF Len(zipcode) < 3 \/ Len(zipcode) > 10
          THEN "zipcode must be 3-10 characters"
        ELSE NoError

validateCustomerInput(input) ==
    LET fullName == AsString(Lookup(input, "full_name"))
        dob == AsString(Lookup(input, "date_of_birth"))
        idNumber == AsString(Lookup(input, "id_number"))
        email == AsString(Lookup(input, "email"))
        phone == AsString(Lookup(input, "phone"))
        address == Lookup(input, "address")
    IN  IF ~(Len(fullName) >= 3 /\ Len(fullName) <= 100
             /\ AllIn(fullName, 1, Len(fullName), Letters \cup {" "}))
          THEN "full_name must be 3-100 characters, alphabet and space only"
        ELSE IF ~isValidDate(dob)
          THEN "date_of_birth must be in YYYY-MM-DD format"
        ELSE IF Len(idNumber) = 0 \/ Len(idNumber) > 25
          THEN "id_number must be 1-25 characters"
        ELSE IF email # <<>> /\ ~isValidEmail(email)
          THEN "email is not valid"
        ELSE IF ~(Len(phone) >= 6 /\ Len(phone) <= 30
                  /\ AllIn(phone, 1, Len(phone), Digits))
          THEN "phone must be 6-30 digits"
        ELSE IF address.t # "map"
          THEN "address is required"
        ELSE IF validateAddressInput(address.m) # NoError
          THEN "invalid address"
        ELSE NoError

\* mutant: the manufacturing year has no upper bound
validateCollateralInput_YearOpen(input) ==
    LET brand == AsString(Lookup(input, "brand"))
        variant == AsString(Lookup(input, "variant"))
        year == Lookup(input, "manufacturing_year")
        mfgYear == AsInt(year)
        okInt == year.t = "int"
        okBool == Lookup(input, "is_document_complete").t = "bool"
    IN  IF Len(brand) = 0 THEN "brand is required"
        ELSE IF Len(variant) = 0 THEN "variant is required"
        ELSE IF ~okInt \/ mfgYear < 2020
          THEN "manufacturing_year must be between 2020 and the current year"
        ELSE IF ~okBool
          THEN "is_document_complete is required and must be a boolean"
        ELSE NoError

validateCollateralInput(input) ==
    LET brand == AsString(Lookup(input, "brand"))
        variant == AsString(Lookup(input, "variant"))
        year == Lookup(input, "manufacturing_year")
        mfgYear == AsInt(year)
        okInt == year.t = "int"
        okBool == Lookup(input, "is_document_complete").t = "bool"
    IN  IF Len(brand) = 0 THEN "brand is required"
        ELSE IF Len(variant) = 0 THEN "variant is required"
        ELSE IF ~okInt \/ mfgYear < 2020 \/ mfgYear > CurrentYear
          THEN "manufacturing_year must be between 2020 and the current year"
        ELSE IF ~okBool
          THEN "is_document_complete is required and must be a boolean"
        ELSE NoError

\* mutant: the tenure need not be divisible by 3
validateProposedLoanInput_AnyTenure(input) ==
    LET tenure == AsInt(Lookup(input, "tenure"))
        okInt == Lookup(input, "tenure").t = "int"
        amount == AsFloat(Lookup(input, "amount"))
        okFloat == Lookup(input, "amount").t = "float64"
    IN  IF ~okInt \/ tenure < 3 \/ tenure > 60
          THEN "tenure must be between 3 and 60, and divisible by 3"
        ELSE IF ~okFloat \/ amount < 100 * 100 \/ amount > 50000 * 100
          THEN "amount must be between 100 and 50000"
        ELSE NoError

\* mutant: the bounds of the amount are exclusive
validateProposedLoanInput_AmountExclusive(input) ==
    LET tenure == AsInt(Lookup(input, "tenure"))
        okInt == Lookup(input, "tenure").t = "int"
        amount == AsFloat(Lookup(input, "amount"))
        okFloat == Lookup(input, "amount").t = "float64"
    IN  IF ~okInt \/ tenure < 3 \/ tenure > 60 \/ tenure % 3 # 0
          THEN "tenure must be between 3 and 60, and divisible by 3"
        ELSE IF ~okFloat \/ amount <= 100 * 100 \/ amount >= 50000 * 100
          THEN "amount must be between 100 and 50000"
        ELSE NoError

validateProposedLoanInput(input) ==
    LET tenure == AsInt(Lookup(input, "tenure"))
        okInt == Lookup(input, "tenure").t = "int"
        amount == AsFloat(Lookup(input, "amount"))
        okFloat == Lookup(input, "amount").t = "float64"
    IN  IF ~okInt \/ tenure < 3 \/ tenure > 60 \/ tenure % 3 # 0
          THEN "tenure must be between 3 and 60, and divisible by 3"
        ELSE IF ~okFloat \/ amount < 100 * 100 \/ amount > 50000 * 100
          THEN "amount must be between 100 and 50000"
        ELSE NoError

-----------------------------------------------------------------------------
(* Inputs the requests are drawn from                                      *)

S_John == <<"J","o","h","n"," ","D","o","e">>
S_Mary == <<"M","a","r","y"," ","R","o","e">>
S_Car == <<"C","A","R">>
S_Motorcycle == <<"M","O","T","O","R","C","Y","C","L","E">>

AddressOK ==
    MapV([street |-> StrV(<<"1"," ","M","a","i","n">>),
          city |-> StrV(<<"R","i","o">>),
          zipcode |-> StrV(<<"1","2","3","4","5">>)])

\* README example: John Doe, phone 1234567890, with an email
CustomerJohn ==
    [full_name |-> StrV(S_John),
     date_of_birth |-> StrV(<<"1","9","9","0","-","0","2","-","2","8">>),
     id_number |-> StrV(<<"I","D","1">>),
     email |-> StrV(<<"j","d","@","x",".","i","o">>),
     phone |-> StrV(<<"1","2","3","4","5","6","7","8","9","0">>),
     address |-> AddressOK]

\* a valid customer who gives no email (the key is absent)
CustomerMary ==
    [full_name |-> StrV(S_Mary),
     date_of_birth |-> StrV(<<"2","0","0","0","-","0","2","-","2","9">>),
     id_number |-> StrV(<<"I","D","2">>),
     phone |-> StrV(<<"5","5","5","0","0","0">>),
     address |-> AddressOK]

\* phone of five digits: violates ^[0-9]{6,30}$
CustomerBadPhone ==
    [CustomerJohn EXCEPT !.phone = StrV(<<"1","2","3","4","5">>)]

LoanOK == [tenure |-> IntV(12), amount |-> FloatV(500000)]
\* tenure 13 is not divisible by 3
LoanBadTenure == [tenure |-> IntV(13), amount |-> FloatV(500000)]

CollateralOK ==
    [category |-> StrV(S_Car), brand |-> StrV(<<"V","W">>),
     variant |-> StrV(<<"G","T">>), manufacturing_year |-> IntV(2021),
     is_document_complete |-> BoolV(TRUE)]
CollateralMoto ==
    [category |-> StrV(S_Motorcycle), brand |-> StrV(<<"K","T","M">>),
     variant |-> StrV(<<"R","C">>), manufacturing_year |-> IntV(2020),
     is_document_complete |-> BoolV(FALSE)]
\* manufacturing year before 2020
CollateralOldYear ==
    [CollateralOK EXCEPT !.manufacturing_year = IntV(2019)]

Data(l, c, u) ==
    [proposed_loan |-> MapV(l), collateral |-> MapV(c), customer |-> MapV(u)]

\* p.Args["data"]: two valid drafts, one draft for each single invalid section,
\* and one with every section invalid
DataArgs ==
    {Data(LoanOK, CollateralOK, CustomerJohn),
     Data(LoanOK, CollateralMoto, CustomerMary),
     Data(LoanBadTenure, CollateralOK, CustomerJohn),
     Data(LoanOK, CollateralOldYear, CustomerMary),
     Data(LoanOK, CollateralMoto, CustomerBadPhone),
     Data(LoanBadTenure, CollateralOldYear, CustomerBadPhone)}

CustomerUUID(k) == 2 * k - 1
LoanUUID(k) == 2 * k

\* p.Args["uuid"]: the ids a create may hand out (taken or not yet taken)
UUIDArgs == {LoanUUID(k) : k \in 1..MaxCreates}

Actor == "system_user_resolver"

-----------------------------------------------------------------------------
(* Results                                                                 *)

NoErr == [kind |-> "nil", where |-> "", cause |-> ""]
ValidationErr(section, cause) ==
    [kind |-> "validation", where |-> section, cause |-> cause]
StorageErr(where, cause) == [kind |-> "storage", where |-> where, cause |-> cause]
NotEligibleErr(cause) == [kind |-> "not_eligible", where |-> "", cause |-> cause]
PanicErr(cause) == [kind |-> "panic", where |-> "", cause |-> cause]

RetNil == [k |-> "nil", b |-> FALSE, id |-> 0, app |-> <<>>]
RetBool(v) == [RetNil EXCEPT !.k = "bool", !.b = v]
RetID(i) == [RetNil EXCEPT !.k = "id", !.id = i]
RetApp(a) == [RetNil EXCEPT !.k = "app", !.app = a]

Idle ==
    [op |-> "none", uuid |-> 0, data |-> <<>>, pc |-> "idle",
     ret |-> RetNil, err |-> NoErr, pre |-> "NONE"]

Done(r, ret, err) == [r EXCEPT !.pc = "done", !.ret = ret, !.err = err]

NoTx == [open |-> FALSE, customers |-> <<>>, loans |-> <<>>]

-----------------------------------------------------------------------------
(* Resolver.CreateLoanApplicationDraft: validation and typed inputs        *)

\* mutant: the collateral section is not validated
ValidateDraft_SkipCollateral(dataArg) ==
    LET proposedLoanMap == AsMap(Lookup(dataArg, "proposed_loan"))
        customerMap == AsMap(Lookup(dataArg, "customer"))
    IN  IF validateProposedLoanInput(proposedLoanMap) # NoError
          THEN ValidationErr("proposed_loan", validateProposedLoanInput(proposedLoanMap))
        ELSE IF validateCustomerInput(customerMap) # NoError
          THEN ValidationErr("customer", validateCustomerInput(customerMap))
        ELSE NoErr

\* mutant: a collateral failure is reported under the customer section
ValidateDraft_WrongSection(dataArg) ==
    LET proposedLoanMap == AsMap(Lookup(dataArg, "proposed_loan"))
        collateralMap == AsMap(Lookup(dataArg, "collateral"))
        customerMap == AsMap(Lookup(dataArg, "customer"))
    IN  IF validateProposedLoanInput(proposedLoanMap) # NoError
          THEN ValidationErr("proposed_loan", validateProposedLoanInput(proposedLoanMap))
        ELSE IF validateCollateralInput(collateralMap) # NoError
          THEN ValidationErr("customer", validateCollateralInput(collateralMap))
        ELSE IF validateCustomerInput(customerMap) # NoError
          THEN ValidationErr("customer", validateCustomerInput(customerMap))
        ELSE NoErr

\* mutant: the customer is validated before the collateral
ValidateDraft_CustomerBeforeCollateral(dataArg) ==
    LET proposedLoanMap == AsMap(Lookup(dataArg, "proposed_loan"))
        collateralMap == AsMap(Lookup(dataArg, "collateral"))
        customerMap == AsMap(Lookup(dataArg, "customer"))
    IN  IF validateProposedLoanInput(proposedLoanMap) # NoError
          THEN ValidationErr("proposed_loan", validateProposedLoanInput(proposedLoanMap))
        ELSE IF validateCustomerInput(customerMap) # NoError
          THEN ValidationErr("customer", validateCustomerInput(customerMap))
        ELSE IF validateCollateralInput(collateralMap) # NoError
          THEN ValidationErr("collateral", validateCollateralInput(collateralMap))
        ELSE NoErr

\* the three validations in the resolver's order; the first failure is returned
ValidateDraft(dataArg) ==
    LET proposedLoanMap == AsMap(Lookup(dataArg, "proposed_loan"))
        collateralMap == AsMap(Lookup(dataArg, "collateral"))
        customerMap == AsMap(Lookup(dataArg, "customer"))
    IN  IF validateProposedLoanInput(proposedLoanMap) # NoError
          THEN ValidationErr("proposed_loan", validateProposedLoanInput(proposedLoanMap))
        ELSE IF validateCollateralInput(collateralMap) # NoError
          THEN ValidationErr("collateral", validateCollateralInput(collateralMap))
        ELSE IF validateCustomerInput(customerMap) # NoError
          THEN ValidationErr("customer", validateCustomerInput(customerMap))
        ELSE NoErr

\* the single-result assertions v.(string), v.(int), ... panic on another type
AssertionsHold(dataArg, stringKeys) ==
    LET proposedLoanMap == AsMap(Lookup(dataArg, "proposed_loan"))
        collateralMap == AsMap(Lookup(dataArg, "collateral"))
        customerMap == AsMap(Lookup(dataArg, "customer"))
        customerAddrMap == AsMap(Lookup(customerMap, "address"))
    IN  /\ \A k \in stringKeys : Lookup(customerMap, k).t = "string"
        /\ \A k \in {"street", "city", "zipcode"} :
              Lookup(customerAddrMap, k).t = "string"
        /\ Lookup(proposedLoanMap, "tenure").t = "int"
        /\ Lookup(proposedLoanMap, "amount").t = "float64"
        /\ \A k \in {"category", "brand", "variant"} :
              Lookup(collateralMap, k).t = "string"
        /\ Lookup(collateralMap, "manufacturing_year").t = "int"
        /\ Lookup(collateralMap, "is_document_complete").t = "bool"

\* model.CustomerInput built by the resolver; a missing or non-string email
\* becomes ""
CustomerIn(dataArg) ==
    LET customerMap == AsMap(Lookup(dataArg, "customer"))
        customerAddrMap == AsMap(Lookup(customerMap, "address"))
    IN  [full_name |-> Lookup(customerMap, "full_name").s,
         date_of_birth |-> Lookup(customerMap, "date_of_birth").s,
         id_number |-> Lookup(customerMap, "id_number").s,
         email |-> AsString(Lookup(customerMap, "email")),
         phone |-> Lookup(customerMap, "phone").s,
         address |-> [street |-> Lookup(customerAddrMap, "street").s,
                      city |-> Lookup(customerAddrMap, "city").s,
                      zipcode |-> Lookup(customerAddrMap, "zipcode").s]]

ProposedLoanIn(dataArg) ==
    LET proposedLoanMap == AsMap(Lookup(dataArg, "proposed_loan"))
    IN  [tenure |-> Lookup(proposedLoanMap, "tenure").n,
         amount |-> Lookup(proposedLoanMap, "amount").n]

CollateralIn(dataArg) ==
    LET collateralMap == AsMap(Lookup(dataArg, "collateral"))
    IN  [category |-> Lookup(collateralMap, "category").s,
         brand |-> Lookup(collateralMap, "brand").s,
         variant |-> Lookup(collateralMap, "variant").s,
         manufacturing_year |-> Lookup(collateralMap, "manufacturing_year").n,
         is_document_complete |-> Lookup(collateralMap, "is_document_complete").b]

-----------------------------------------------------------------------------
(* The schema of db/migrations and the statements of DBService             *)

CollateralCategories == {S_Car, S_Motorcycle}

LoansColumns ==
    {"id", "customer_id", "tenure", "amount", "loan_status",
     "collateral_category", "collateral_brand", "collateral_variant",
     "collateral_manufacturing_year", "collateral_is_document_complete",
     "created_at", "updated_at", "created_by", "updated_by", "deleted",
     "deleted_at"}

\* the row of table customers that CreateLoanApplicationDraft inserts
CustomerRow(customerIn, createdBy) ==
    [full_name |-> customerIn.full_name,
     date_of_birth |-> customerIn.date_of_birth,
     id_number |-> customerIn.id_number,
     email |-> customerIn.email,
     phone |-> customerIn.phone,
     address_street |-> customerIn.address.street,
     address_city |-> customerIn.address.city,
     address_zipcode |-> customerIn.address.zipcode,
     created_by |-> createdBy, updated_by |-> createdBy,
     deleted |-> FALSE, deleted_at |-> "NULL"]

\* the row of table loans that CreateLoanApplicationDraft inserts
\* mutant: every loan row references the first customer row
LoanRow_FirstCustomer(customerID, loanIn, collateralIn, createdBy) ==
    [customer_id |-> 1,
     tenure |-> loanIn.tenure, amount |-> loanIn.amount,
     loan_status |-> "DRAFT",
     collateral_category |-> collateralIn.category,
     collateral_brand |-> collateralIn.brand,
     collateral_variant |-> collateralIn.variant,
     collateral_manufacturing_year |-> collateralIn.manufacturing_year,
     collateral_is_document_complete |-> collateralIn.is_document_complete,
     created_by |-> createdBy, updated_by |-> createdBy,
     deleted |-> FALSE, deleted_at |-> "NULL"]

LoanRow(customerID, loanIn, collateralIn, createdBy) ==
    [customer_id |-> customerID,
     tenure |-> loanIn.tenure, amount |-> loanIn.amount,
     loan_status |-> "DRAFT",
     collateral_category |-> collateralIn.category,
     collateral_brand |-> collateralIn.brand,
     collateral_variant |-> collateralIn.variant,
     collateral_manufacturing_year |-> collateralIn.manufacturing_year,
     collateral_is_document_complete |-> collateralIn.is_document_complete,
     created_by |-> createdBy, updated_by |-> createdBy,
     deleted |-> FALSE, deleted_at |-> "NULL"]

\* mutant: the constraint spares the applicants whose loans are all deleted
UniqueViolation_LiveLoansOnly(idNumber) ==
    \E c \in DOMAIN customers :
        /\ customers[c].id_number = idNumber
        /\ \E id \in DOMAIN loans :
              loans[id].customer_id = c /\ loans[id].deleted = FALSE

\* customers.id_number UNIQUE, against the committed rows
UniqueViolation(idNumber) ==
    \E c \in DOMAIN customers : customers[c].id_number = idNumber

\* mutant: the insert also waits on a committed row, which no commit or
\* rollback will ever release
UniqueWait_OnCommittedToo(w, idNumber) ==
    \/ \E o \in Workers \ {w} :
          \E c \in DOMAIN tx[o].customers : tx[o].customers[c].id_number = idNumber
    \/ \E c \in DOMAIN customers : customers[c].id_number = idNumber

\* another open transaction holds an uncommitted row with this id_number: the
\* insert waits for that transaction to end
UniqueWait(w, idNumber) ==
    \E o \in Workers \ {w} :
        \E c \in DOMAIN tx[o].customers : tx[o].customers[c].id_number = idNumber

\* tables after tx.Commit: the rows of the transaction become visible together
AfterCommit(table, pending) == pending @@ table

\* mutant: the inserts bypass the transaction, so a failure leaves their rows
AfterRollback_RowsKept(table, pending) == pending @@ table

\* tables after the deferred tx.Rollback: the rows of the transaction are dropped
AfterRollback(table, pending) == table

\* mutant: the UPDATE tests the id alone
SubmitWhere_IdOnly(id, row, loanUUID) == id = loanUUID

\* mutant: the UPDATE does not test loan_status
SubmitWhere_NoStatus(id, row, loanUUID) == id = loanUUID /\ row.deleted = FALSE

\* WHERE id = $3 AND loan_status = 'DRAFT' AND deleted = FALSE
SubmitWhere(id, row, loanUUID) ==
    id = loanUUID /\ row.loan_status = "DRAFT" /\ row.deleted = FALSE

\* mutant: the UPDATE of submit forgets the status column
SubmitSet_KeepsStatus(row, updatedBy) == [row EXCEPT !.updated_by = updatedBy]

\* mutant: the UPDATE of submit also resets the amount
SubmitSet_ClearsAmount(row, updatedBy) ==
    [row EXCEPT !.loan_status = "SUBMITTED", !.updated_by = updatedBy,
                !.amount = 0]

\* SET loan_status = $1, updated_at = NOW(), updated_by = $2
SubmitSet(row, updatedBy) ==
    [row EXCEPT !.loan_status = "SUBMITTED", !.updated_by = updatedBy]

\* mutant: the UPDATE has no test of the id
CancelWhere_AnyId(id, row, loanUUID) == row.deleted = FALSE

\* mutant: cancel is accepted from DRAFT only
CancelWhere_DraftOnly(id, row, loanUUID) ==
    id = loanUUID /\ row.loan_status = "DRAFT" /\ row.deleted = FALSE

\* WHERE id = $3 AND deleted = FALSE
CancelWhere(id, row, loanUUID) == id = loanUUID /\ row.deleted = FALSE

\* mutant: the UPDATE sets the status and leaves the row undeleted
CancelSet_StatusOnly(row, updatedBy) ==
    [row EXCEPT !.loan_status = "CANCELLED", !.updated_by = updatedBy]

\* mutant: the UPDATE leaves deleted_at alone
CancelSet_NoDeletedAt(row, updatedBy) ==
    [row EXCEPT !.loan_status = "CANCELLED", !.updated_by = updatedBy,
                !.deleted = TRUE]

\* SET loan_status = $1, updated_at = NOW(), updated_by = $2, deleted = TRUE,
\*     deleted_at = NOW()
CancelSet(row, updatedBy) ==
    [row EXCEPT !.loan_status = "CANCELLED", !.updated_by = updatedBy,
                !.deleted = TRUE, !.deleted_at = "NOW"]

\* mutant: the cancel cascades the soft delete to the applicant rows
CustomersAfterCancel_Cascade(affected) ==
    [c \in DOMAIN customers |->
        IF \E id \in affected : loans[id].customer_id = c
          THEN [customers[c] EXCEPT !.deleted = TRUE, !.deleted_at = "NOW"]
          ELSE customers[c]]

\* the cancel statement is an UPDATE of table loans alone: table customers
\* after it
CustomersAfterCancel(affected) == customers

\* the loans columns that the SELECT of GetLoanApplication names
GetSelectColumns ==
    {"id", "status", "tenure", "amount",
     "collateral_category", "collateral_brand", "collateral_variant",
     "collateral_manufacturing_year", "collateral_is_document_complete",
     "created_at", "updated_at", "created_by", "updated_by", "deleted",
     "deleted_at", "customer_id"}

\* FROM loans l JOIN customers c ON l.customer_id = c.id
\* WHERE l.id = $1 AND l.deleted = FALSE
GetRows(loanUUID) ==
    {id \in DOMAIN loans :
        /\ id = loanUUID
        /\ loans[id].deleted = FALSE
        /\ loans[id].customer_id \in DOMAIN customers}

\* the model.LoanApplication that Scan fills from the joined row
ScanApp(id) ==
    LET l == loans[id]
        c == customers[l.customer_id]
    IN  [uuid |-> id,
         status |-> l.loan_status,
         proposed_loan |-> [tenure |-> l.tenure, amount |-> l.amount],
         collateral |-> [category |-> l.collateral_category,
                         brand |-> l.collateral_brand,
                         variant |-> l.collateral_variant,
                         manufacturing_year |-> l.collateral_manufacturing_year,
                         is_document_complete |-> l.collateral_is_document_complete],
         customer |-> [full_name |-> c.full_name,
                       date_of_birth |-> c.date_of_birth,
                       id_number |-> c.id_number,
                       email |-> c.email,
                       phone |-> c.phone,
                       address |-> [street |-> c.address_street,
                                    city |-> c.address_city,
                                    zipcode |-> c.address_zipcode]]]

-----------------------------------------------------------------------------
(* State                                                                   *)

Init ==
    /\ impl \in {"db", "mem"}
    /\ customers = <<>>
    /\ loans = <<>>
    /\ tx = [w \in Workers |-> NoTx]
    /\ loanApplications = <<>>
    /\ loanApplicationsMutex = ""
    /\ uuids = 0
    /\ req = [w \in Workers |-> Idle]

\* the stored status of an application, "NONE" when there is none
StatusOf(id) ==
    IF impl = "db"
      THEN (IF id \in DOMAIN loans THEN loans[id].loan_status ELSE "NONE")
      ELSE (IF id \in DOMAIN loanApplications
              THEN loanApplications[id].status ELSE "NONE")

Free(w) == req[w].pc \in {"idle", "done"}

Starting(w, op) == req[w].op = op /\ req[w].pc = "start"

Finish(w, ret, err) == req' = [req EXCEPT ![w] = Done(@, ret, err)]

Goto(w, pc) == req' = [req EXCEPT ![w].pc = pc]

-----------------------------------------------------------------------------
(* A request arrives at a worker                                           *)

CallCreate(w) ==
    /\ Free(w)
    /\ uuids + Cardinality({o \in Workers : Starting(o, "create")}) < MaxCreates
    /\ \E d \in DataArgs :
          req' = [req EXCEPT ![w] = [Idle EXCEPT !.op = "create", !.data = d,
                                                 !.pc = "start"]]
    /\ UNCHANGED <<impl, customers, loans, tx, loanApplications,
                   loanApplicationsMutex, uuids>>

CallByUUID(w) ==
    /\ Free(w)
    /\ \E op \in {"get", "submit", "cancel"}, id \in UUIDArgs :
          req' = [req EXCEPT ![w] = [Idle EXCEPT !.op = op, !.uuid = id,
                                                 !.pc = "start",
                                                 !.pre = StatusOf(id)]]
    /\ UNCHANGED <<impl, customers, loans, tx, loanApplications,
                   loanApplicationsMutex, uuids>>

-----------------------------------------------------------------------------
(* impl = "db": Resolver over DBService                                    *)

DBStringKeys == {"full_name", "date_of_birth", "id_number", "phone"}

\* Resolver.CreateLoanApplicationDraft up to DBService's s.Pool.Begin
DBCreateBegin(w) ==
    /\ impl = "db"
    /\ Starting(w, "create")
    /\ LET d == req[w].data IN
       IF ValidateDraft(d) # NoErr
         THEN /\ Finish(w, RetNil, ValidateDraft(d))
              /\ UNCHANGED <<tx, uuids>>
       ELSE IF ~AssertionsHold(d, DBStringKeys)
         THEN /\ Finish(w, RetNil, PanicErr("interface conversion"))
              /\ UNCHANGED <<tx, uuids>>
       ELSE /\ uuids' = uuids + 1
            /\ \E fault \in BOOLEAN :
                 IF fault
                   THEN /\ req' = [req EXCEPT ![w] =
                               Done([@ EXCEPT !.uuid = LoanUUID(uuids + 1)], RetNil,
                                    StorageErr("failed to begin transaction",
                                               "connection"))]
                        /\ UNCHANGED tx
                   ELSE /\ req' = [req EXCEPT ![w].uuid = LoanUUID(uuids + 1),
                                              ![w].pc = "insert_customer"]
                        /\ tx' = [tx EXCEPT ![w].open = TRUE]
    /\ UNCHANGED <<impl, customers, loans, loanApplications,
                   loanApplicationsMutex>>

\* tx.Exec(ctx, customerSQL, ...)
DBInsertCustomer(w) ==
    /\ impl = "db"
    /\ req[w].pc = "insert_customer"
    /\ LET dbCustomer == CustomerRow(CustomerIn(req[w].data), Actor)
           customerUUID == req[w].uuid - 1
       IN  /\ ~UniqueWait(w, dbCustomer.id_number)
           /\ \E fault \in BOOLEAN :
                IF fault \/ UniqueViolation(dbCustomer.id_number)
                  THEN /\ customers' = AfterRollback(customers, tx[w].customers)
                       /\ loans' = AfterRollback(loans, tx[w].loans)
                       /\ tx' = [tx EXCEPT ![w] = NoTx]
                       /\ Finish(w, RetNil,
                                 StorageErr("failed to insert customer",
                                            IF fault THEN "connection"
                                                     ELSE "unique_violation"))
                  ELSE /\ tx' = [tx EXCEPT ![w].customers =
                                     (customerUUID :> dbCustomer) @@ @]
                       /\ Goto(w, "insert_loan")
                       /\ UNCHANGED <<customers, loans>>
    /\ UNCHANGED <<impl, loanApplications, loanApplicationsMutex, uuids>>

\* tx.Exec(ctx, loanSQL, ...)
DBInsertLoan(w) ==
    /\ impl = "db"
    /\ req[w].pc = "insert_loan"
    /\ LET d == req[w].data
           dbLoanApp == LoanRow(req[w].uuid - 1, ProposedLoanIn(d),
                                CollateralIn(d), Actor)
       IN  \E fault \in BOOLEAN :
             IF fault \/ dbLoanApp.collateral_category \notin CollateralCategories
               THEN /\ customers' = AfterRollback(customers, tx[w].customers)
                    /\ loans' = AfterRollback(loans, tx[w].loans)
                    /\ tx' = [tx EXCEPT ![w] = NoTx]
                    /\ Finish(w, RetNil,
                              StorageErr("failed to insert loan",
                                         IF fault THEN "connection"
                                                  ELSE "invalid_enum_value"))
               ELSE /\ tx' = [tx EXCEPT ![w].loans = (req[w].uuid :> dbLoanApp) @@ @]
                    /\ Goto(w, "commit")
                    /\ UNCHANGED <<customers, loans>>
    /\ UNCHANGED <<impl, loanApplications, loanApplicationsMutex, uuids>>

\* tx.Commit(ctx), then the resolver returns createdLoanApp.ID
DBCommit(w) ==
    /\ impl = "db"
    /\ req[w].pc = "commit"
    /\ \E fault \in BOOLEAN :
         IF fault
           THEN /\ customers' = AfterRollback(customers, tx[w].customers)
                /\ loans' = AfterRollback(loans, tx[w].loans)
                /\ Finish(w, RetNil,
                          StorageErr("failed to commit transaction", "connection"))
           ELSE /\ customers' = AfterCommit(customers, tx[w].customers)
                /\ loans' = AfterCommit(loans, tx[w].loans)
                /\ Finish(w, RetID(req[w].uuid), NoErr)
    /\ tx' = [tx EXCEPT ![w] = NoTx]
    /\ UNCHANGED <<impl, loanApplications, loanApplicationsMutex, uuids>>

\* Resolver.GetLoanApplication over DBService.GetLoanApplication
DBGet(w) ==
    /\ impl = "db"
    /\ Starting(w, "get")
    /\ \E fault \in BOOLEAN :
         IF fault \/ ~(GetSelectColumns \subseteq LoansColumns)
           THEN Finish(w, RetNil,
                       StorageErr("failed to query loan application",
                                  IF fault THEN "connection"
                                           ELSE "undefined_column"))
         ELSE IF GetRows(req[w].uuid) = {}
           THEN Finish(w, RetNil, NoErr)
         ELSE Finish(w, RetApp(ScanApp(req[w].uuid)), NoErr)
    /\ UNCHANGED <<impl, customers, loans, tx, loanApplications,
                   loanApplicationsMutex, uuids>>

\* mutant: the gateway reports a row as affected whatever the statement did
RowsAffected_One(affected) == 1

\* commandTag.RowsAffected()
RowsAffected(affected) == Cardinality(affected)

\* UPDATE loans SET ... WHERE ...: the table after the statement
UpdateLoans(affected, set, updatedBy) ==
    [id \in DOMAIN loans |->
        IF id \notin affected THEN loans[id]
        ELSE IF set = "submit" THEN SubmitSet(loans[id], updatedBy)
        ELSE CancelSet(loans[id], updatedBy)]

\* mutant: the error of the gateway is dropped and only its boolean is read
TransitionResult_IgnoresFailed(w, success, failed, wrapped, notEligible) ==
    IF ~success THEN Finish(w, RetBool(FALSE), NotEligibleErr(notEligible))
    ELSE Finish(w, RetBool(success), NoErr)

\* mutant: the resolver forwards the gateway's (false, nil) as it is
TransitionResult_Unwrapped(w, success, failed, wrapped, notEligible) ==
    IF failed THEN Finish(w, RetNil, StorageErr(wrapped, "connection"))
    ELSE Finish(w, RetBool(success), NoErr)

\* mutant: the resolver passes (false, nil) of the gateway on as it is
TransitionResult_FalseWithoutError(w, success, failed, wrapped, notEligible) ==
    IF failed THEN Finish(w, RetNil, StorageErr(wrapped, "connection"))
    ELSE Finish(w, RetBool(success), NoErr)

\* what Resolver.SubmitLoanApplication / CancelLoanApplication return for the
\* (bool, error) of the gateway
TransitionResult(w, success, failed, wrapped, notEligible) ==
    IF failed THEN Finish(w, RetNil, StorageErr(wrapped, "connection"))
    ELSE IF ~success THEN Finish(w, RetBool(FALSE), NotEligibleErr(notEligible))
    ELSE Finish(w, RetBool(success), NoErr)

\* Resolver.SubmitLoanApplication over DBService.SubmitLoanApplication
DBSubmit(w) ==
    /\ impl = "db"
    /\ Starting(w, "submit")
    /\ \E fault \in BOOLEAN :
         LET affected == IF fault THEN {}
                         ELSE {id \in DOMAIN loans :
                                  SubmitWhere(id, loans[id], req[w].uuid)}
         IN  /\ loans' = UpdateLoans(affected, "submit", Actor)
             /\ TransitionResult(w, RowsAffected(affected) > 0, fault,
                    "failed to update loan application to submitted",
                    "not found, not in DRAFT state, or already deleted")
    /\ UNCHANGED <<impl, customers, tx, loanApplications,
                   loanApplicationsMutex, uuids>>

\* Resolver.CancelLoanApplication over DBService.CancelLoanApplication
DBCancel(w) ==
    /\ impl = "db"
    /\ Starting(w, "cancel")
    /\ \E fault \in BOOLEAN :
         LET affected == IF fault THEN {}
                         ELSE {id \in DOMAIN loans :
                                  CancelWhere(id, loans[id], req[w].uuid)}
         IN  /\ loans' = UpdateLoans(affected, "cancel", Actor)
             /\ customers' = CustomersAfterCancel(affected)
             /\ TransitionResult(w, RowsAffected(affected) > 0, fault,
                    "failed to cancel loan application",
                    "not found or already deleted")
    /\ UNCHANGED <<impl, tx, loanApplications, loanApplicationsMutex, uuids>>

-----------------------------------------------------------------------------
(* impl = "mem": the resolvers over the map of data.go                     *)

MemStringKeys == DBStringKeys \cup {"email"}

\* the *LoanApplicationData that createLoanApplicationDraftResolver stores
NewApp(appUUID, dataArg) ==
    [uuid |-> appUUID,
     status |-> "DRAFT",
     proposed_loan |-> ProposedLoanIn(dataArg),
     collateral |-> CollateralIn(dataArg),
     customer |-> CustomerIn(dataArg)]

\* loanApplicationsMutex.Lock() returns only while nobody holds the mutex
MutexFree == loanApplicationsMutex = ""

\* createLoanApplicationDraftResolver
MemCreate(w) ==
    /\ impl = "mem"
    /\ Starting(w, "create")
    /\ LET d == req[w].data IN
       IF ValidateDraft(d) # NoErr
         THEN /\ Finish(w, RetNil, ValidateDraft(d))
              /\ UNCHANGED <<loanApplications, uuids>>
       ELSE IF ~AssertionsHold(d, MemStringKeys)
         THEN /\ Finish(w, RetNil, PanicErr("interface conversion"))
              /\ uuids' = uuids + 1
              /\ UNCHANGED loanApplications
       ELSE /\ MutexFree
            /\ uuids' = uuids + 1
            /\ loanApplications' =
                   (LoanUUID(uuids + 1) :> NewApp(LoanUUID(uuids + 1), d))
                       @@ loanApplications
            /\ req' = [req EXCEPT ![w] =
                          Done([@ EXCEPT !.uuid = LoanUUID(uuids + 1)],
                               RetID(LoanUUID(uuids + 1)), NoErr)]
    /\ UNCHANGED <<impl, customers, loans, tx, loanApplicationsMutex>>

\* getLoanApplicationResolver: RLock, map read, RUnlock, return app
MemGetPointer(w) ==
    /\ impl = "mem"
    /\ Starting(w, "get")
    /\ MutexFree
    /\ IF req[w].uuid \in DOMAIN loanApplications
         THEN Goto(w, "resolve")
         ELSE Finish(w, RetNil, NoErr)
    /\ UNCHANGED <<impl, customers, loans, tx, loanApplications,
                   loanApplicationsMutex, uuids>>

\* the resolver of o stands between its status test and its assignment to
\* app.Status of the application id; it holds the mutex
Writing(o, id) ==
    req[o].pc = "checked" /\ req[o].op \in {"submit", "cancel"} /\ req[o].uuid = id

\* what an unsynchronised read of app.Status can yield: the stored string,
\* and, when an assignment to it is under way, the assigned string or a mix of
\* the two string headers
StatusRead(w) ==
    {loanApplications[req[w].uuid].status}
        \cup UNION {{IF req[o].op = "submit" THEN "SUBMITTED" ELSE "CANCELLED",
                     "TORN"} :
                       o \in {x \in Workers \ {w} : Writing(x, req[w].uuid)}}

\* the fields of the returned pointer are read; the mutex is not taken
ResolveFields(w) ==
    /\ req[w].op = "get" /\ req[w].pc = "resolve"
    /\ \E st \in StatusRead(w) :
          Finish(w, RetApp([loanApplications[req[w].uuid] EXCEPT !.status = st]),
                 NoErr)
    /\ UNCHANGED <<impl, customers, loans, tx, loanApplications,
                   loanApplicationsMutex, uuids>>

\* loanApplicationsMutex.Lock(); defer loanApplicationsMutex.Unlock()
MemLock(w) ==
    /\ impl = "mem"
    /\ req[w].pc = "start"
    /\ req[w].op \in {"submit", "cancel"}
    /\ MutexFree
    /\ loanApplicationsMutex' = w
    /\ Goto(w, "locked")
    /\ UNCHANGED <<impl, customers, loans, tx, loanApplications, uuids>>

\* submitLoanApplicationResolver: the lookup and the status test
MemSubmitCheck(w) ==
    /\ impl = "mem"
    /\ req[w].pc = "locked"
    /\ req[w].op = "submit"
    /\ IF req[w].uuid \notin DOMAIN loanApplications
         THEN /\ Finish(w, RetBool(FALSE), NotEligibleErr("not found"))
              /\ loanApplicationsMutex' = ""
       ELSE IF loanApplications[req[w].uuid].status # "DRAFT"
         THEN /\ Finish(w, RetBool(FALSE), NotEligibleErr("cannot submit"))
              /\ loanApplicationsMutex' = ""
       ELSE /\ Goto(w, "checked")
            /\ UNCHANGED loanApplicationsMutex
    /\ UNCHANGED <<impl, customers, loans, tx, loanApplications, uuids>>

\* submitLoanApplicationResolver: app.Status = "SUBMITTED", return, Unlock
MemSubmitWrite(w) ==
    /\ impl = "mem"
    /\ req[w].pc = "checked"
    /\ req[w].op = "submit"
    /\ loanApplications' =
           [loanApplications EXCEPT ![req[w].uuid].status = "SUBMITTED"]
    /\ Finish(w, RetBool(TRUE), NoErr)
    /\ loanApplicationsMutex' = ""
    /\ UNCHANGED <<impl, customers, loans, tx, uuids>>

\* cancelLoanApplicationResolver: the lookup and the status tests
MemCancelCheck(w) ==
    /\ impl = "mem"
    /\ req[w].pc = "locked"
    /\ req[w].op = "cancel"
    /\ IF req[w].uuid \notin DOMAIN loanApplications
         THEN /\ Finish(w, RetBool(FALSE), NotEligibleErr("not found"))
              /\ loanApplicationsMutex' = ""
       ELSE IF loanApplications[req[w].uuid].status = "CANCELLED"
         THEN /\ Finish(w, RetBool(TRUE), NoErr)
              /\ loanApplicationsMutex' = ""
       ELSE IF loanApplications[req[w].uuid].status \notin {"DRAFT", "SUBMITTED"}
         THEN /\ Finish(w, RetBool(FALSE), NotEligibleErr("cannot cancel"))
              /\ loanApplicationsMutex' = ""
       ELSE /\ Goto(w, "checked")
            /\ UNCHANGED loanApplicationsMutex
    /\ UNCHANGED <<impl, customers, loans, tx, loanApplications, uuids>>

\* cancelLoanApplicationResolver: app.Status = "CANCELLED", return, Unlock
MemCancelWrite(w) ==
    /\ impl = "mem"
    /\ req[w].pc = "checked"
    /\ req[w].op = "cancel"
    /\ loanApplications' =
           [loanApplications EXCEPT ![req[w].uuid].status = "CANCELLED"]
    /\ Finish(w, RetBool(TRUE), NoErr)
    /\ loanApplicationsMutex' = ""
    /\ UNCHANGED <<impl, customers, loans, tx, uuids>>

-----------------------------------------------------------------------------
(* Specification                                                           *)

Next ==
    \E w \in Workers :
        \/ CallCreate(w)
        \/ CallByUUID(w)
        \/ DBCreateBegin(w)
        \/ DBInsertCustomer(w)
        \/ DBInsertLoan(w)
        \/ DBCommit(w)
        \/ DBGet(w)
        \/ DBSubmit(w)
        \/ DBCancel(w)
        \/ MemCreate(w)
        \/ MemGetPointer(w)
        \/ ResolveFields(w)
        \/ MemLock(w)
        \/ MemSubmitCheck(w)
        \/ MemSubmitWrite(w)
        \/ MemCancelCheck(w)
        \/ MemCancelWrite(w)

Spec == Init /\ [][Next]_vars

\* Scheduling.  Every goroutine that can take its next step takes it, and
\* every storage call returns (with a result, or with the error of a cancelled
\* or expired context): weak fairness of each step.  The steps that wait for a
\* lock are strongly fair: sync.RWMutex hands the lock to a waiter that has
\* been starved, and PostgreSQL wakes the insert that waits on the id_number
\* of another transaction as soon as that transaction ends.  Arrivals of
\* requests (CallCreate, CallByUUID) are not fair: no client has to call.
\* the steps of w's call that wait for nothing
Proceed(w) ==
    \/ DBCreateBegin(w) \/ DBInsertLoan(w) \/ DBCommit(w)
    \/ DBGet(w) \/ DBSubmit(w) \/ DBCancel(w)
    \/ MemSubmitCheck(w) \/ MemSubmitWrite(w)
    \/ MemCancelCheck(w) \/ MemCancelWrite(w)
    \/ ResolveFields(w)

\* the steps of w's call that wait for a lock
Acquire(w) ==
    DBInsertCustomer(w) \/ MemCreate(w) \/ MemGetPointer(w) \/ MemLock(w)

Fairness ==
    \A w \in Workers : WF_vars(Proceed(w)) /\ SF_vars(Acquire(w))

LiveSpec == Spec /\ Fairness

-----------------------------------------------------------------------------
(* The validation helpers on their own: the resolver's calls                *)
(*   validateProposedLoanInput(proposedLoanMap),                           *)
(*   validateCollateralInput(collateralMap),                               *)
(*   validateCustomerInput(customerMap)                                    *)
(* with section maps beyond the ones of DataArgs.                          *)

\* marks a key that the map does not have
AbsentV == [NilV EXCEPT !.t = "absent"]

\* the map[string]interface{} with the keys of rec that are not marked absent
MkMap(rec) == [k \in {x \in DOMAIN rec : rec[x] # AbsentV} |-> rec[k]]

\* the string of n characters c
Rep(c, n) == [i \in 1..n |-> c]

TenureArgs ==
    {AbsentV, NilV, FloatV(1200), StrV(<<"1","2">>)}
        \cup {IntV(t) : t \in -3..MaxTenureArg}

\* amounts in hundredths: around 100.00 and 50000.00, and far from them
AmountArgs ==
    {AbsentV, NilV, StrV(<<"5","0","0","0">>)}
        \cup {FloatV(h) : h \in {-10000, 0, 1, 9999, 10000, 10001, 500000,
                                  4999999, 5000000, 5000001, 10000000}}

ProposedLoanArgs ==
    {MkMap([tenure |-> t, amount |-> FloatV(500000)]) : t \in TenureArgs}
        \cup {MkMap([tenure |-> IntV(12), amount |-> a]) : a \in AmountArgs}
        \cup {MkMap([tenure |-> IntV(13), amount |-> FloatV(9999)]), <<>>}

TextArgs == {AbsentV, StrV(<<>>), StrV(<<"V","W">>), IntV(7)}

YearArgs ==
    {AbsentV, FloatV(202100), StrV(<<"2","0","2","1">>)}
        \cup {IntV(y) : y \in 2018..(CurrentYear + 2)}

DocumentArgs == {AbsentV, BoolV(TRUE), BoolV(FALSE), StrV(<<"t","r","u","e">>)}

CategoryArgs == {AbsentV, StrV(S_Car), StrV(<<"T","R","U","C","K">>)}

CollateralArgs ==
    {MkMap([category |-> c, brand |-> b, variant |-> v,
            manufacturing_year |-> y, is_document_complete |-> d]) :
        c \in CategoryArgs, b \in TextArgs, v \in TextArgs, y \in YearArgs,
        d \in DocumentArgs}

\* per customer field: values that keep the field's rule and values that
\* break it
NameKeep == {StrV(S_John), StrV(Rep("a", 3)), StrV(Rep("z", 100))}
NameBreak == {AbsentV, StrV(Rep("a", 2)), StrV(Rep("a", 101)),
              StrV(<<"J","0","e">>), StrV(<<"J","o","-","A","n","n">>)}
DobKeep == {StrV(<<"1","9","9","0","-","0","2","-","2","8">>),
            StrV(<<"2","0","0","0","-","0","2","-","2","9">>)}
DobBreak == {AbsentV, StrV(<<>>),
             StrV(<<"1","9","9","0","-","0","2","-","3","0">>),
             StrV(<<"1","9","0","0","-","0","2","-","2","9">>),
             StrV(<<"1","9","9","0","-","1","3","-","0","1">>),
             StrV(<<"1","9","9","0","-","2","-","1">>),
             StrV(<<"2","8","/","0","2","/","1","9","9","0">>)}
IdKeep == {StrV(Rep("9", 1)), StrV(Rep("9", 25))}
IdBreak == {AbsentV, StrV(<<>>), StrV(Rep("9", 26))}
EmailKeep == {AbsentV, NilV, StrV(<<>>), StrV(<<"j","d","@","x",".","i","o">>)}
EmailBreak == {StrV(<<"j","d","x",".","i","o">>),
               StrV(<<"j","d","@","x",".","i">>),
               StrV(<<"@","x",".","i","o">>),
               StrV(<<"j","d","@","x","i","o">>)}
PhoneKeep == {StrV(Rep("1", 6)), StrV(Rep("1", 30))}
PhoneBreak == {AbsentV, StrV(Rep("1", 5)), StrV(Rep("1", 31)),
               StrV(<<"1","2","3","4","5","a">>)}

Address(street, city, zipcode) ==
    MapV(MkMap([street |-> street, city |-> city, zipcode |-> zipcode]))

AddressKeep ==
    {AddressOK,
     Address(StrV(Rep("s", 1)), StrV(Rep("c", 1)), StrV(Rep("0", 3))),
     Address(StrV(Rep("s", 200)), StrV(Rep("c", 100)), StrV(Rep("0", 10)))}
AddressBreak ==
    {AbsentV, NilV,
     Address(AbsentV, StrV(Rep("c", 1)), StrV(Rep("0", 3))),
     Address(StrV(Rep("s", 201)), StrV(Rep("c", 1)), StrV(Rep("0", 3))),
     Address(StrV(Rep("s", 1)), StrV(<<>>), StrV(Rep("0", 3))),
     Address(StrV(Rep("s", 1)), StrV(Rep("c", 101)), StrV(Rep("0", 3))),
     Address(StrV(Rep("s", 1)), StrV(Rep("c", 1)), StrV(Rep("0", 2))),
     Address(StrV(Rep("s", 1)), StrV(Rep("c", 1)), StrV(Rep("0", 11))),
     Address(StrV(Rep("s", 1)), StrV(Rep("c", 1)), AbsentV)}

Customer(n, d, i, e, p, a) ==
    MkMap([full_name |-> n, date_of_birth |-> d, id_number |-> i, email |-> e,
           phone |-> p, address |-> a])

\* every combination of rule-keeping values, the customers that break the
\* rule of the name only, and the combinations of values that keep or break
\* the rules of the other fields
CustomerArgs ==
    {Customer(n, d, i, e, p, a) :
        n \in NameKeep, d \in DobKeep, i \in IdKeep, e \in EmailKeep,
        p \in PhoneKeep, a \in AddressKeep}
    \cup {Customer(n, d, i, e, p, a) :
        n \in NameBreak \cup {StrV(S_John)},
        d \in {StrV(<<"1","9","9","0","-","0","2","-","2","8">>)},
        i \in {StrV(Rep("9", 1))}, e \in EmailKeep,
        p \in {StrV(Rep("1", 6))}, a \in {AddressOK}}
    \cup {Customer(StrV(S_John), d, i, e, p, a) :
        d \in DobBreak \cup {StrV(<<"2","0","0","0","-","0","2","-","2","9">>)},
        i \in IdBreak \cup {StrV(Rep("9", 25))},
        e \in {StrV(<<"j","d","@","x",".","i">>), AbsentV},
        p \in {StrV(Rep("1", 5)), StrV(Rep("1", 30))},
        a \in {AddressOK}}
    \cup {Customer(StrV(S_John),
                   StrV(<<"2","0","0","0","-","0","2","-","2","9">>),
                   StrV(Rep("9", 25)), e, p, a) :
        e \in EmailBreak \cup {AbsentV},
        p \in PhoneBreak \cup {StrV(Rep("1", 30))},
        a \in AddressBreak \cup {AddressOK}}

\* one call of a validation helper: the section and its map
ValidateArgs ==
    {[section |-> "proposed_loan", input |-> m] : m \in ProposedLoanArgs}
        \cup {[section |-> "collateral", input |-> m] : m \in CollateralArgs}
        \cup {[section |-> "customer", input |-> m] : m \in CustomerArgs}

\* the helper the resolver calls for a section
ValidateSection(section, input) ==
    CASE section = "proposed_loan" -> validateProposedLoanInput(input)
      [] section = "collateral" -> validateCollateralInput(input)
      [] section = "customer" -> validateCustomerInput(input)

\* the resolver reaches one of its three validations with a section map; a
\* behaviour applies the helper to one map
ValidateCall ==
    /\ req["w1"] = Idle
    /\ \E a \in ValidateArgs :
          req' = [req EXCEPT !["w1"] = [Idle EXCEPT !.op = "validate", !.data = a,
                                                    !.pc = "start"]]
    /\ UNCHANGED <<impl, customers, loans, tx, loanApplications,
                   loanApplicationsMutex, uuids>>

\* if err := validate...(m); err != nil { return nil, "invalid <section>: %w" }
ValidateReturn ==
    /\ Starting("w1", "validate")
    /\ LET a == req["w1"].data
           err == ValidateSection(a.section, a.input)
       IN  Finish("w1", RetNil,
                  IF err = NoError THEN NoErr ELSE ValidationErr(a.section, err))
    /\ UNCHANGED <<impl, customers, loans, tx, loanApplications,
                   loanApplicationsMutex, uuids>>

ValidateNext == ValidateCall \/ ValidateReturn

ValidateSpec == Init /\ [][ValidateNext]_vars

-----------------------------------------------------------------------------
(* The createLoanApplicationDraft field behind its argument type: the      *)
(* handler coerces the argument to LoanApplicationDraftInput and calls the *)
(* resolver only when the coercion succeeds.                               *)

\* a category outside the enum, and a collateral without the category key
CollateralTruck == [CollateralOK EXCEPT !.category = StrV(<<"T","R","U","C","K">>)]
CollateralNoCategory ==
    MkMap([CollateralOK EXCEPT !.category = AbsentV])

\* the data argument as the request carries it
RequestDataArgs ==
    {Data(LoanOK, CollateralOK, CustomerJohn),
     Data(LoanOK, CollateralMoto, CustomerMary),
     Data(LoanOK, CollateralTruck, CustomerJohn),
     Data(LoanOK, CollateralNoCategory, CustomerJohn),
     Data(LoanBadTenure, CollateralTruck, CustomerMary)}

\* mutant: category is a NonNull String
CategoryCoerces_AnyString(v) == v.t = "string"

\* category: NewNonNull(collateralCategoryEnum), values CAR and MOTORCYCLE
CategoryCoerces(v) == v.t = "string" /\ v.s \in {S_Car, S_Motorcycle}

\* the request names the mutation field with a data argument
RequestCreate(w) ==
    /\ Free(w)
    /\ uuids + Cardinality({o \in Workers :
                               /\ req[o].op = "create"
                               /\ req[o].pc \in {"received", "start"}})
           < MaxCreates
    /\ \E d \in RequestDataArgs :
          req' = [req EXCEPT ![w] = [Idle EXCEPT !.op = "create", !.data = d,
                                                 !.pc = "received"]]
    /\ UNCHANGED <<impl, customers, loans, tx, loanApplications,
                   loanApplicationsMutex, uuids>>

\* the argument is coerced to its type; the resolver runs on success only
CoerceData(w) ==
    /\ req[w].op = "create" /\ req[w].pc = "received"
    /\ IF CategoryCoerces(Lookup(req[w].data.collateral.m, "category"))
         THEN Goto(w, "start")
         ELSE Finish(w, RetNil, ValidationErr("data", "category"))
    /\ UNCHANGED <<impl, customers, loans, tx, loanApplications,
                   loanApplicationsMutex, uuids>>

RequestNext ==
    \E w \in Workers :
        \/ RequestCreate(w)
        \/ CoerceData(w)
        \/ DBCreateBegin(w)
        \/ DBInsertCustomer(w)
        \/ DBInsertLoan(w)
        \/ DBCommit(w)
        \/ MemCreate(w)

RequestSpec == Init /\ [][RequestNext]_vars

-----------------------------------------------------------------------------
(* createLoanApplicationDraft called with every combination of valid and   *)
(* invalid sections.                                                       *)

\* amount 99.99 is below 100
LoanBadAmount == [LoanOK EXCEPT !.amount = FloatV(9999)]
CollateralNoBrand == [CollateralOK EXCEPT !.brand = StrV(<<>>)]
\* a name of two letters
CustomerShortName == [CustomerJohn EXCEPT !.full_name = StrV(<<"J","o">>)]

LoanSections == {LoanOK, LoanBadTenure, LoanBadAmount}
CollateralSections == {CollateralOK, CollateralOldYear, CollateralNoBrand}
CustomerSections == {CustomerJohn, CustomerBadPhone, CustomerShortName}

SectionDataArgs ==
    {Data(l, c, u) :
        l \in LoanSections, c \in CollateralSections, u \in CustomerSections}

CallCreateSections(w) ==
    /\ Free(w)
    /\ uuids + Cardinality({o \in Workers : Starting(o, "create")}) < MaxCreates
    /\ \E d \in SectionDataArgs :
          req' = [req EXCEPT ![w] = [Idle EXCEPT !.op = "create", !.data = d,
                                                 !.pc = "start"]]
    /\ UNCHANGED <<impl, customers, loans, tx, loanApplications,
                   loanApplicationsMutex, uuids>>

SectionsNext ==
    \E w \in Workers :
        \/ CallCreateSections(w)
        \/ DBCreateBegin(w)
        \/ DBInsertCustomer(w)
        \/ DBInsertLoan(w)
        \/ DBCommit(w)
        \/ MemCreate(w)

SectionsSpec == Init /\ [][SectionsNext]_vars

-----------------------------------------------------------------------------
(* The in-memory prototype on its own.                                     *)

MemInit == Init /\ impl = "mem"

FieldsNext ==
    \E w \in Workers :
        \/ CallCreate(w)
        \/ CallByUUID(w)
        \/ MemCreate(w)
        \/ MemGetPointer(w)
        \/ ResolveFields(w)
        \/ MemLock(w)
        \/ MemSubmitCheck(w)
        \/ MemSubmitWrite(w)
        \/ MemCancelCheck(w)
        \/ MemCancelWrite(w)

FieldsSpec == MemInit /\ [][FieldsNext]_vars

-----------------------------------------------------------------------------
(* The two revisions side by side: each call of a sequence is served first *)
(* by the storage-backed resolvers (worker "w1", impl = "db") and then by   *)
(* the in-memory resolvers (worker "w2", impl = "mem").  The k-th           *)
(* application is the one of the k-th create that drew an id in either      *)
(* revision.                                                              *)

PairInit == Init /\ impl = "db"

\* the ids of the k-th application in the two revisions
DBId(k) == LoanUUID(2 * k - 1)
MemId(k) == LoanUUID(2 * k)

DBStatus(k) == IF DBId(k) \in DOMAIN loans THEN loans[DBId(k)].loan_status ELSE "NONE"
MemStatus(k) ==
    IF MemId(k) \in DOMAIN loanApplications
      THEN loanApplications[MemId(k)].status ELSE "NONE"

\* the id-numbers of the applicants stored in either revision
StoredIdNumbers ==
    {customers[c].id_number : c \in DOMAIN customers}
        \cup {loanApplications[id].customer.id_number : id \in DOMAIN loanApplications}

\* the last call of the storage-backed revision met a failure of the connection
StorageFailed ==
    req["w1"].err.kind = "storage" /\ req["w1"].err.cause = "connection"

\* the next call of the sequence is handed to both revisions: a create with an
\* id-number not stored yet, a submit, or a cancel of an application that is
\* not cancelled; the sequence ends when the storage has failed
PairCall ==
    /\ Free("w1") /\ Free("w2")
    /\ ~StorageFailed
    /\ impl' = "db"
    /\ \/ /\ uuids + 2 <= 2 * MaxCreates
          /\ \E d \in DataArgs :
                /\ Lookup(d.customer.m, "id_number").s \notin StoredIdNumbers
                /\ req' = [x \in Workers |->
                              [Idle EXCEPT !.op = "create", !.data = d,
                                           !.pc = "start"]]
       \/ \E op \in {"submit", "cancel"}, k \in 1..MaxCreates :
             /\ op = "cancel" => "CANCELLED" \notin {DBStatus(k), MemStatus(k)}
             /\ req' = [x \in Workers |->
                           [Idle EXCEPT !.op = op, !.pc = "start",
                                        !.uuid = IF x = "w1" THEN DBId(k)
                                                             ELSE MemId(k)]]
    /\ UNCHANGED <<customers, loans, tx, loanApplications,
                   loanApplicationsMutex, uuids>>

\* the storage-backed resolver has returned; the in-memory one takes the call
PairHandover ==
    /\ impl = "db"
    /\ req["w1"].pc = "done" /\ req["w2"].pc = "start"
    /\ impl' = "mem"
    /\ UNCHANGED <<customers, loans, tx, loanApplications,
                   loanApplicationsMutex, uuids, req>>

PairNext ==
    \/ PairCall
    \/ PairHandover
    \/ DBCreateBegin("w1")
    \/ DBInsertCustomer("w1")
    \/ DBInsertLoan("w1")
    \/ DBCommit("w1")
    \/ DBSubmit("w1")
    \/ DBCancel("w1")
    \/ MemCreate("w2")
    \/ MemLock("w2")
    \/ MemSubmitCheck("w2")
    \/ MemSubmitWrite("w2")
    \/ MemCancelCheck("w2")
    \/ MemCancelWrite("w2")

PairSpec == PairInit /\ [][PairNext]_vars

-----------------------------------------------------------------------------
(* Vocabulary of the properties                                            *)

Returned(w, op) == req[w].op = op /\ req[w].pc = "done"

\* the call of w ended on a failure of the storage connection itself
Faulted(w) == req[w].err.kind = "storage" /\ req[w].err.cause = "connection"

\* the sections of a create input that break a field rule: the inputs are the
\* named samples, and which of them are invalid is known by construction
BadSections(d) ==
    {sec \in {"proposed_loan", "collateral", "customer"} :
        \/ sec = "proposed_loan" /\ d.proposed_loan.m = LoanBadTenure
        \/ sec = "collateral" /\ d.collateral.m = CollateralOldYear
        \/ sec = "customer" /\ d.customer.m = CustomerBadPhone}

-----------------------------------------------------------------------------
(* C1 *)

\* C1: two submitApplication calls on the same id never both return true, and
\* when both were invoked while the application was DRAFT and neither met a
\* storage failure, exactly one returns true and the other false.
C1_OneSubmitWins ==
    \A w1, w2 \in Workers :
        (/\ w1 # w2
         /\ Returned(w1, "submit") /\ Returned(w2, "submit")
         /\ req[w1].uuid = req[w2].uuid)
        => /\ ~(req[w1].ret = RetBool(TRUE) /\ req[w2].ret = RetBool(TRUE))
           /\ (/\ req[w1].pre = "DRAFT" /\ req[w2].pre = "DRAFT"
               /\ ~Faulted(w1) /\ ~Faulted(w2))
              => {req[w1].ret, req[w2].ret} = {RetBool(TRUE), RetBool(FALSE)}

\* two submits, both invoked on the DRAFT application, have both returned
C1_Witness ==
    \E w1, w2 \in Workers :
        /\ w1 # w2
        /\ impl = "db"
        /\ Returned(w1, "submit") /\ Returned(w2, "submit")
        /\ req[w1].uuid = req[w2].uuid
        /\ req[w1].pre = "DRAFT" /\ req[w2].pre = "DRAFT"
        /\ req[w1].ret = RetBool(TRUE) /\ req[w2].ret = RetBool(FALSE)

-----------------------------------------------------------------------------
(* C2 *)

\* C2: cancelApplication on an existing application returns true, on the first
\* call and on a repeated one, and the status is CANCELLED afterwards.
C2_CancelTwiceTrue ==
    \A w \in Workers :
        (Returned(w, "cancel") /\ req[w].pre # "NONE" /\ ~Faulted(w))
        => /\ req[w].ret = RetBool(TRUE)
           /\ StatusOf(req[w].uuid) = "CANCELLED"

-----------------------------------------------------------------------------
(* C3 *)

\* C3: CreateLoanApplicationDraft is all-or-nothing.  No customer row is ever
\* visible without its loan row (nor a loan row without its customer); the rows
\* of a create that is still running are not visible; after a create returned
\* an error neither of its rows is stored, and after it returned an id both are.
C3_CreateAllOrNothing ==
    /\ \A c \in DOMAIN customers :
          \E l \in DOMAIN loans : loans[l].customer_id = c
    /\ \A l \in DOMAIN loans : loans[l].customer_id \in DOMAIN customers
    /\ \A w \in Workers :
          (impl = "db" /\ req[w].op = "create" /\ req[w].uuid # 0) =>
             LET loanUUID == req[w].uuid
                 customerUUID == req[w].uuid - 1
             IN  IF req[w].pc = "done" /\ req[w].err = NoErr
                   THEN /\ req[w].ret = RetID(loanUUID)
                        /\ loanUUID \in DOMAIN loans
                        /\ customerUUID \in DOMAIN customers
                        /\ loans[loanUUID].customer_id = customerUUID
                   ELSE /\ loanUUID \notin DOMAIN loans
                        /\ customerUUID \notin DOMAIN customers

\* a create failed at the loan insert or at the commit, after its customer row
\* had been inserted, while another application was already stored
C3_Witness ==
    \E w \in Workers :
        /\ Returned(w, "create")
        /\ req[w].err.where \in {"failed to insert loan",
                                 "failed to commit transaction"}
        /\ DOMAIN customers # {}
        /\ req[w].uuid - 1 \notin DOMAIN customers

-----------------------------------------------------------------------------
(* C4 *)

\* C4: submitApplication on a DRAFT application returns true and sets status
\* SUBMITTED and updated-by; a getApplication invoked afterwards, while the
\* application is SUBMITTED, returns the application with status SUBMITTED.
C4_SubmitThenGet ==
    /\ \A w \in Workers :
          (Returned(w, "submit") /\ req[w].ret = RetBool(TRUE))
          => /\ StatusOf(req[w].uuid) \in {"SUBMITTED", "CANCELLED"}
             /\ impl = "db" => loans[req[w].uuid].updated_by = Actor
    /\ \A w \in Workers :
          (/\ Returned(w, "get") /\ ~Faulted(w)
           /\ req[w].pre = "SUBMITTED"
           /\ StatusOf(req[w].uuid) = "SUBMITTED")
          => /\ req[w].err = NoErr
             /\ req[w].ret.k = "app"
             /\ req[w].ret.app.uuid = req[w].uuid
             /\ req[w].ret.app.status = "SUBMITTED"

-----------------------------------------------------------------------------
(* C5 *)

\* w ends its call of op in this step
Returns(w, op) == req[w].op = op /\ req[w].pc # "done" /\ req'[w].pc = "done"

\* C5: a submitApplication that meets the application in status SUBMITTED or
\* CANCELLED returns false (unless the storage call itself failed) and leaves
\* the stored row as it was.
C5_SubmitRejected ==
    [][\A w \in Workers :
          (Returns(w, "submit")
           /\ StatusOf(req[w].uuid) \in {"SUBMITTED", "CANCELLED"})
          => /\ Faulted(w)' \/ req'[w].ret = RetBool(FALSE)
             /\ req'[w].ret # RetBool(TRUE)
             /\ impl = "db" => loans'[req[w].uuid] = loans[req[w].uuid]
             /\ impl = "mem" => loanApplications'[req[w].uuid]
                                   = loanApplications[req[w].uuid]]_vars

\* a submit invoked on an application that was already SUBMITTED was refused
C5_Witness ==
    \E w \in Workers :
        /\ impl = "db"
        /\ Returned(w, "submit")
        /\ req[w].pre = "SUBMITTED"
        /\ req[w].ret = RetBool(FALSE)
        /\ req[w].err.kind = "not_eligible"
        /\ loans[req[w].uuid].loan_status = "SUBMITTED"

-----------------------------------------------------------------------------
(* C6 *)

\* C6: a cancelApplication that meets the application in status DRAFT or
\* SUBMITTED returns true (unless the storage call itself failed), and then
\* the status is CANCELLED, the row is flagged deleted and deleted_at is set.
\* The in-memory record has no deleted flag: there the status is CANCELLED.
C6_CancelSoftDeletes ==
    [][\A w \in Workers :
          (/\ Returns(w, "cancel")
           /\ StatusOf(req[w].uuid) \in {"DRAFT", "SUBMITTED"}
           /\ ~Faulted(w)')
          => /\ req'[w].ret = RetBool(TRUE)
             /\ req'[w].err = NoErr
             /\ StatusOf(req[w].uuid)' = "CANCELLED"
             /\ impl = "db" => /\ loans'[req[w].uuid].deleted = TRUE
                               /\ loans'[req[w].uuid].deleted_at # "NULL"]_vars

\* a cancel invoked on a SUBMITTED application returned true and the row is
\* CANCELLED and soft-deleted
C6_Witness ==
    \E w \in Workers :
        /\ impl = "db"
        /\ Returned(w, "cancel")
        /\ req[w].pre = "SUBMITTED"
        /\ req[w].ret = RetBool(TRUE)
        /\ loans[req[w].uuid].loan_status = "CANCELLED"
        /\ loans[req[w].uuid].deleted = TRUE

-----------------------------------------------------------------------------
(* C7 *)

StatusMoves ==
    {<<"NONE", "NONE">>, <<"NONE", "DRAFT">>,
     <<"DRAFT", "DRAFT">>, <<"DRAFT", "SUBMITTED">>, <<"DRAFT", "CANCELLED">>,
     <<"SUBMITTED", "SUBMITTED">>, <<"SUBMITTED", "CANCELLED">>,
     <<"CANCELLED", "CANCELLED">>}

\* C7: the status of an application only moves forward: it starts at DRAFT,
\* never returns to DRAFT, leaves SUBMITTED only for CANCELLED and never
\* leaves CANCELLED.
C7_StatusMonotone ==
    [][\A id \in UUIDArgs : <<StatusOf(id), StatusOf(id)'>> \in StatusMoves]_vars

\* an application went DRAFT -> SUBMITTED -> CANCELLED, and a submit invoked
\* on the cancelled application has returned
C7_Witness ==
    \E w1, w2 \in Workers :
        /\ w1 # w2
        /\ Returned(w1, "cancel") /\ req[w1].pre = "SUBMITTED"
        /\ req[w1].ret = RetBool(TRUE)
        /\ Returned(w2, "submit") /\ req[w2].pre = "CANCELLED"
        /\ req[w2].uuid = req[w1].uuid
        /\ StatusOf(req[w1].uuid) = "CANCELLED"

-----------------------------------------------------------------------------
(* C8 *)

\* C8: a createDraft whose input has an invalid section fails with a
\* validation error without reaching persistence: the step that ends it leaves
\* the customer rows, the loan rows, the transactions, the in-memory map and
\* the UUID counter (drawn first thing by the gateway) unchanged.
C8_InvalidNeverPersisted ==
    [][\A w \in Workers :
          (/\ Starting(w, "create")
           /\ BadSections(req[w].data) # {}
           /\ req'[w] # req[w])
          => /\ req'[w].pc = "done"
             /\ req'[w].err.kind = "validation"
             /\ req'[w].ret = RetNil
             /\ UNCHANGED <<customers, loans, tx, loanApplications, uuids>>]_vars

\* a draft whose only invalid section is the collateral was refused while an
\* application was stored
C8_Witness ==
    \E w \in Workers :
        /\ Returned(w, "create")
        /\ BadSections(req[w].data) = {"collateral"}
        /\ req[w].err.kind = "validation"
        /\ DOMAIN loans # {}

-----------------------------------------------------------------------------
(* C9 *)

\* C9: when exactly one section of the input is invalid, the validation error
\* names that section; tenure 13 gives an error naming proposed_loan.
C9_ErrorNamesSection ==
    \A w \in Workers :
        (Returned(w, "create") /\ Cardinality(BadSections(req[w].data)) = 1)
        => /\ req[w].err.kind = "validation"
           /\ req[w].err.where \in BadSections(req[w].data)

\* the draft with tenure 13 and nothing else wrong was refused under
\* proposed_loan
C9_Witness ==
    \E w \in Workers :
        /\ Returned(w, "create")
        /\ req[w].data = Data(LoanBadTenure, CollateralOK, CustomerJohn)
        /\ req[w].err = ValidationErr("proposed_loan",
               "tenure must be between 3 and 60, and divisible by 3")

-----------------------------------------------------------------------------
(* C10 *)

\* the loan and collateral columns of a loans row are the submitted values
LoanAsSubmitted(row, d) ==
    /\ row.tenure = d.proposed_loan.m.tenure.n
    /\ row.amount = d.proposed_loan.m.amount.n
    /\ row.collateral_category = d.collateral.m.category.s
    /\ row.collateral_brand = d.collateral.m.brand.s
    /\ row.collateral_variant = d.collateral.m.variant.s
    /\ row.collateral_manufacturing_year = d.collateral.m.manufacturing_year.n
    /\ row.collateral_is_document_complete = d.collateral.m.is_document_complete.b

\* the columns of a customers row are the submitted values (no email: "")
CustomerAsSubmitted(row, d) ==
    LET c == d.customer.m IN
    /\ row.full_name = c.full_name.s
    /\ row.date_of_birth = c.date_of_birth.s
    /\ row.id_number = c.id_number.s
    /\ row.email = (IF "email" \in DOMAIN c THEN c.email.s ELSE <<>>)
    /\ row.phone = c.phone.s
    /\ row.address_street = c.address.m.street.s
    /\ row.address_city = c.address.m.city.s
    /\ row.address_zipcode = c.address.m.zipcode.s

\* an application record carries the submitted values field for field
AppAsSubmitted(app, d) ==
    LET c == d.customer.m IN
    /\ app.proposed_loan.tenure = d.proposed_loan.m.tenure.n
    /\ app.proposed_loan.amount = d.proposed_loan.m.amount.n
    /\ app.collateral.category = d.collateral.m.category.s
    /\ app.collateral.brand = d.collateral.m.brand.s
    /\ app.collateral.variant = d.collateral.m.variant.s
    /\ app.collateral.manufacturing_year = d.collateral.m.manufacturing_year.n
    /\ app.collateral.is_document_complete = d.collateral.m.is_document_complete.b
    /\ app.customer.full_name = c.full_name.s
    /\ app.customer.date_of_birth = c.date_of_birth.s
    /\ app.customer.id_number = c.id_number.s
    /\ app.customer.email = (IF "email" \in DOMAIN c THEN c.email.s ELSE <<>>)
    /\ app.customer.phone = c.phone.s
    /\ app.customer.address.street = c.address.m.street.s
    /\ app.customer.address.city = c.address.m.city.s
    /\ app.customer.address.zipcode = c.address.m.zipcode.s

\* the create of w ends in this step with its application stored under the
\* returned id, in status DRAFT and with exactly the submitted values
StoredAsSubmitted(w) ==
    LET id == req'[w].uuid IN
    /\ req'[w].err = NoErr
    /\ req'[w].ret = RetID(id)
    /\ IF impl = "db"
         THEN /\ id \in DOMAIN loans'
              /\ loans'[id].loan_status = "DRAFT"
              /\ LoanAsSubmitted(loans'[id], req[w].data)
              /\ loans'[id].customer_id \in DOMAIN customers'
              /\ CustomerAsSubmitted(customers'[loans'[id].customer_id],
                                     req[w].data)
         ELSE /\ id \in DOMAIN loanApplications'
              /\ loanApplications'[id].status = "DRAFT"
              /\ AppAsSubmitted(loanApplications'[id], req[w].data)

\* the create of w ends in this step as the uniqueness rule of the
\* specification prescribes: a stored applicant has the submitted id-number
\* and the create fails at the customer insert
RefusedAsDuplicate(w) ==
    /\ req'[w].err = StorageErr("failed to insert customer", "unique_violation")
    /\ \E c \in DOMAIN customers :
          customers[c].id_number = req[w].data.customer.m.id_number.s

\* C10: in either revision, a createDraft whose input satisfies all field
\* rules succeeds, and the application it creates has status DRAFT and carries
\* exactly the submitted loan, collateral and customer values.  The only
\* failures set aside are the ones the specification itself prescribes for a
\* valid input: a failed storage call and an id-number that is already stored.
C10_ValidDraftStored ==
    [][\A w \in Workers :
          (Returns(w, "create") /\ BadSections(req[w].data) = {})
          => \/ StoredAsSubmitted(w)
             \/ Faulted(w)'
             \/ RefusedAsDuplicate(w)]_vars

-----------------------------------------------------------------------------
(* C11 *)

\* C11: round trip.  A getApplication invoked with the id a successful
\* createDraft returned, while the application is still DRAFT (no transition in
\* between) and the read met no connection failure, returns the application
\* with that id, status DRAFT and the submitted loan, collateral and customer
\* values.
C11_RoundTrip ==
    \A w1, w2 \in Workers :
        (/\ Returned(w1, "create") /\ req[w1].ret.k = "id"
         /\ Returned(w2, "get") /\ req[w2].uuid = req[w1].ret.id
         /\ req[w2].pre = "DRAFT"
         /\ ~Faulted(w2))
        => /\ req[w2].err = NoErr
           /\ req[w2].ret.k = "app"
           /\ req[w2].ret.app.uuid = req[w1].ret.id
           /\ req[w2].ret.app.status = "DRAFT"
           /\ AppAsSubmitted(req[w2].ret.app, req[w1].data)

-----------------------------------------------------------------------------
(* C12 *)

\* the applicant records that are stored and not deleted, as <<key, id-number>>
Applicants ==
    IF impl = "db"
      THEN {<<c, customers[c].id_number>> :
               c \in {x \in DOMAIN customers : ~customers[x].deleted}}
      ELSE {<<a, loanApplications[a].customer.id_number>> :
               a \in DOMAIN loanApplications}

\* C12: no two stored, non-deleted applicant records have the same id-number.
C12_UniqueIdNumber ==
    \A a, b \in Applicants : a[2] = b[2] => a[1] = b[1]

-----------------------------------------------------------------------------
(* C13 *)

\* C13: a getApplication invoked on an application that a cancelApplication
\* has cancelled returns absent (no application, no error), unless the read
\* itself met a connection failure; it never returns the cancelled record.
C13_CancelledNotRead ==
    \A w1, w2 \in Workers :
        (/\ Returned(w1, "cancel") /\ req[w1].ret = RetBool(TRUE)
         /\ Returned(w2, "get") /\ req[w2].uuid = req[w1].uuid
         /\ req[w2].pre = "CANCELLED")
        => /\ req[w2].ret.k # "app"
           /\ ~Faulted(w2) => (req[w2].ret = RetNil /\ req[w2].err = NoErr)

-----------------------------------------------------------------------------
(* C14 *)

\* C14: a submitApplication and a cancelApplication both invoked on the same
\* DRAFT application end as one of the two serial orders: the cancel returns
\* true and the status ends CANCELLED, and the submit returns true (it ran
\* first) or false with a reason (the cancel ran first).  A call whose storage
\* statement itself failed returns neither.
C14_SubmitCancelRace ==
    \A w1, w2 \in Workers :
        (/\ Returned(w1, "submit") /\ Returned(w2, "cancel")
         /\ req[w1].uuid = req[w2].uuid
         /\ req[w1].pre = "DRAFT" /\ req[w2].pre = "DRAFT"
         /\ ~Faulted(w2))
        => /\ req[w2].ret = RetBool(TRUE) /\ req[w2].err = NoErr
           /\ StatusOf(req[w2].uuid) = "CANCELLED"
           /\ ~Faulted(w1) =>
                 \/ req[w1].ret = RetBool(TRUE) /\ req[w1].err = NoErr
                 \/ req[w1].ret = RetBool(FALSE) /\ req[w1].err.kind = "not_eligible"

\* the race in which the submit ran first: both calls were invoked on the
\* DRAFT application and both returned true
C14_Witness ==
    \E w1, w2 \in Workers :
        /\ impl = "db"
        /\ Returned(w1, "submit") /\ Returned(w2, "cancel")
        /\ req[w1].uuid = req[w2].uuid
        /\ req[w1].pre = "DRAFT" /\ req[w2].pre = "DRAFT"
        /\ req[w1].ret = RetBool(TRUE) /\ req[w2].ret = RetBool(TRUE)
        /\ loans[req[w1].uuid].loan_status = "CANCELLED"

-----------------------------------------------------------------------------
(* C15 *)

\* the proposed-loan and collateral values of a stored application
LoanValues(id) ==
    IF impl = "db"
      THEN <<loans[id].tenure, loans[id].amount, loans[id].collateral_category,
             loans[id].collateral_brand, loans[id].collateral_variant,
             loans[id].collateral_manufacturing_year,
             loans[id].collateral_is_document_complete>>
      ELSE <<loanApplications[id].proposed_loan.tenure,
             loanApplications[id].proposed_loan.amount,
             loanApplications[id].collateral.category,
             loanApplications[id].collateral.brand,
             loanApplications[id].collateral.variant,
             loanApplications[id].collateral.manufacturing_year,
             loanApplications[id].collateral.is_document_complete>>

\* C15: once an application is stored, no step (of a get, a submit, a cancel or
\* another create, on this or any other application) changes its tenure,
\* amount, category, brand, variant, manufacturing year or
\* document-completeness, and the application stays stored.
C15_LoanValuesFrozen ==
    [][\A id \in UUIDArgs :
          StatusOf(id) # "NONE"
          => /\ StatusOf(id)' # "NONE"
             /\ LoanValues(id)' = LoanValues(id)]_vars

\* an application was submitted and then cancelled and still carries the
\* tenure 12 and amount 5000.00 of its draft
C15_Witness ==
    \E w \in Workers :
        /\ impl = "db"
        /\ Returned(w, "cancel") /\ req[w].pre = "SUBMITTED"
        /\ req[w].ret = RetBool(TRUE)
        /\ loans[req[w].uuid].loan_status = "CANCELLED"
        /\ loans[req[w].uuid].updated_by = Actor
        /\ loans[req[w].uuid].tenure = 12
        /\ loans[req[w].uuid].amount = 500000

-----------------------------------------------------------------------------
(* C16 *)

\* the columns a lifecycle transition may write
TransitionColumns == {"loan_status", "updated_by", "deleted", "deleted_at"}

\* C16: a step of submit or cancel leaves every applicant record as it was and
\* changes, in the loan record, only the status and audit columns; a cancelled
\* (soft-deleted) loan row still has its applicant row, with deleted = FALSE.
\* In the in-memory revision the applicant is part of the application record
\* and stays as it was.
C16_TransitionsSpareApplicant ==
    [][\A w \in Workers :
          (req[w].op \in {"submit", "cancel"} /\ req'[w] # req[w])
          => /\ customers' = customers
             /\ DOMAIN loans' = DOMAIN loans
             /\ \A id \in DOMAIN loans :
                   /\ \A col \in DOMAIN loans[id] \ TransitionColumns :
                         loans'[id][col] = loans[id][col]
                   /\ loans'[id].deleted
                      => /\ loans'[id].customer_id \in DOMAIN customers'
                         /\ ~customers'[loans'[id].customer_id].deleted
             /\ DOMAIN loanApplications' = DOMAIN loanApplications
             /\ \A id \in DOMAIN loanApplications :
                   loanApplications'[id].customer = loanApplications[id].customer]_vars

\* a cancel returned true, its loan row is soft-deleted and the applicant row
\* of that loan is stored with deleted = FALSE
C16_Witness ==
    \E w \in Workers :
        /\ impl = "db"
        /\ Returned(w, "cancel") /\ req[w].ret = RetBool(TRUE)
        /\ loans[req[w].uuid].deleted
        /\ loans[req[w].uuid].customer_id \in DOMAIN customers
        /\ ~customers[loans[req[w].uuid].customer_id].deleted

-----------------------------------------------------------------------------
(* C17 *)

\* the application of this id is absent or soft-deleted (in the in-memory
\* revision, which has no deleted flag: absent or CANCELLED)
AbsentOrDeleted(id) ==
    IF impl = "db"
      THEN id \notin DOMAIN loans \/ loans[id].deleted
      ELSE StatusOf(id) \in {"NONE", "CANCELLED"}

\* C17: a submitApplication on an id that has no application, or whose
\* application is soft-deleted, changes nothing in the store and fails as not
\* found / not eligible: it returns false with an error of that kind.  That
\* outcome differs from the one of a failed storage statement, which returns
\* no boolean and a storage error.
C17_SubmitOnAbsent ==
    [][\A w \in Workers :
          (Returns(w, "submit") /\ AbsentOrDeleted(req[w].uuid))
          => /\ UNCHANGED <<customers, loans, loanApplications>>
             /\ \/ /\ req'[w].ret = RetBool(FALSE)
                   /\ req'[w].err.kind = "not_eligible"
                \/ /\ req'[w].ret = RetNil
                   /\ Faulted(w)']_vars

\* one submit on an id that was never created and one on a soft-deleted
\* application were both refused as not eligible
C17_Witness ==
    \E w1, w2 \in Workers :
        /\ impl = "db"
        /\ Returned(w1, "submit") /\ req[w1].pre = "NONE"
        /\ req[w1].uuid \notin DOMAIN loans
        /\ req[w1].ret = RetBool(FALSE) /\ req[w1].err.kind = "not_eligible"
        /\ Returned(w2, "submit") /\ req[w2].pre = "CANCELLED"
        /\ loans[req[w2].uuid].deleted
        /\ req[w2].ret = RetBool(FALSE) /\ req[w2].err.kind = "not_eligible"

-----------------------------------------------------------------------------
(* C18 *)

\* C18: a getApplication on an id that has no application, met by no failure
\* of the storage connection, returns absent: no application and no error.
C18_AbsentNotError ==
    \A w \in Workers :
        (/\ Returned(w, "get")
         /\ req[w].pre = "NONE" /\ StatusOf(req[w].uuid) = "NONE"
         /\ ~Faulted(w))
        => req[w].ret = RetNil /\ req[w].err = NoErr

-----------------------------------------------------------------------------
(* C19 *)

\* C19: a createDraft that failed because its id-number is already stored
\* ends in a conflict outcome, not in the outcome of a generic storage failure.
C19_DuplicateIsConflict ==
    \A w \in Workers :
        (/\ Returned(w, "create")
         /\ req[w].err.cause = "unique_violation")
        => req[w].err.kind = "conflict"

-----------------------------------------------------------------------------
(* C20 *)

\* the status a transition asks for
TargetStatus(op) == IF op = "submit" THEN "SUBMITTED" ELSE "CANCELLED"

\* C20 as stated: submit and cancel never return false (or nothing) without an
\* error, and return true only when this call changed the stored status.
C20_TrueMeansChanged ==
    [][\A w \in Workers : \A op \in {"submit", "cancel"} :
          Returns(w, op)
          => /\ req'[w].ret # RetBool(TRUE) => req'[w].err # NoErr
             /\ req'[w].ret = RetBool(TRUE)
                => StatusOf(req[w].uuid)' # StatusOf(req[w].uuid)]_vars

\* C20 amended: submit and cancel never return false (or nothing) without an
\* error; when they return true the application is in the requested status,
\* and this call moved it there, except that the in-memory cancel also returns
\* true for an application it found already CANCELLED and left as it was.
C20_TrueMeansInTargetStatus ==
    [][\A w \in Workers : \A op \in {"submit", "cancel"} :
          Returns(w, op)
          => /\ req'[w].ret # RetBool(TRUE) => req'[w].err # NoErr
             /\ req'[w].ret = RetBool(TRUE)
                => /\ req'[w].err = NoErr
                   /\ StatusOf(req[w].uuid)' = TargetStatus(op)
                   /\ \/ StatusOf(req[w].uuid) # StatusOf(req[w].uuid)'
                      \/ /\ impl = "mem" /\ op = "cancel"
                         /\ StatusOf(req[w].uuid) = "CANCELLED"
                         /\ UNCHANGED loanApplications]_vars

\* the in-memory cancel returned true for an application that was already
\* CANCELLED when it was invoked
C20_Witness ==
    \E w \in Workers :
        /\ impl = "mem"
        /\ Returned(w, "cancel") /\ req[w].pre = "CANCELLED"
        /\ req[w].ret = RetBool(TRUE) /\ req[w].err = NoErr
        /\ loanApplications[req[w].uuid].status = "CANCELLED"

-----------------------------------------------------------------------------
(* C21 *)

\* w ends its call in this step, whatever the operation
Ends(w) == req[w].pc # "done" /\ req'[w].pc = "done"

\* C21: a failed storage call is reported.  A call that ends with a storage
\* error returns no value, and a call that returns an id, an application or
\* true carries no error.  Whenever the storage call of the ending step did not
\* do what the stored rows made it due to do, the call ends with a storage
\* error: a submit or cancel whose WHERE clause matched a row that the step left
\* unwritten, a get whose row was there but was not returned, and a create
\* that ends without its rows having become visible after it had begun its
\* transaction.
C21_FaultsReported ==
    [][\A w \in Workers :
          Ends(w) =>
            LET id == req[w].uuid
                failed == req'[w].err.kind = "storage" /\ req'[w].ret = RetNil
            IN  /\ req'[w].err.kind = "storage" => req'[w].ret = RetNil
                /\ (req'[w].ret.k \in {"id", "app"} \/ req'[w].ret = RetBool(TRUE))
                   => req'[w].err = NoErr
                /\ (/\ impl = "db" /\ req[w].op = "submit"
                    /\ id \in DOMAIN loans /\ SubmitWhere(id, loans[id], id)
                    /\ loans'[id] = loans[id]) => failed
                /\ (/\ impl = "db" /\ req[w].op = "cancel"
                    /\ id \in DOMAIN loans /\ CancelWhere(id, loans[id], id)
                    /\ loans'[id] = loans[id]) => failed
                /\ (/\ impl = "db" /\ req[w].op = "get"
                    /\ GetRows(id) # {} /\ req'[w].ret.k # "app") => failed
                /\ (/\ impl = "db" /\ req[w].op = "create"
                    /\ req[w].pc \in {"insert_customer", "insert_loan", "commit"}
                    /\ id \notin DOMAIN loans') => failed]_vars

\* a cancel invoked on a DRAFT application failed in storage: it returned an
\* error and no boolean, and the row is still DRAFT; and a create failed at
\* its commit and returned an error and no id
C21_Witness ==
    \E w1, w2 \in Workers :
        /\ impl = "db"
        /\ Returned(w1, "cancel") /\ req[w1].pre = "DRAFT"
        /\ Faulted(w1) /\ req[w1].ret = RetNil
        /\ loans[req[w1].uuid].loan_status = "DRAFT"
        /\ Returned(w2, "create") /\ req[w2].ret = RetNil
        /\ req[w2].err.where = "failed to commit transaction"

-----------------------------------------------------------------------------
(* C22 *)

\* w serves a call that has not returned yet
Running(w) == req[w].pc \notin {"idle", "done"}

\* C22: every started create, get, submit or cancel eventually returns; a
\* transaction is open only while its create is running; and when a storage
\* call of a create fails (as it does when the caller's context is cancelled
\* or expires) the create returns with its transaction closed and none of its
\* rows visible.
C22_OperationsReturn ==
    /\ \A w \in Workers : Running(w) ~> (req[w].pc = "done")
    /\ [](\A w \in Workers :
            /\ tx[w] # NoTx
               => /\ req[w].op = "create"
                  /\ req[w].pc \in {"insert_customer", "insert_loan", "commit"}
            /\ (Returned(w, "create") /\ Faulted(w))
               => /\ tx[w] = NoTx
                  /\ req[w].uuid \notin DOMAIN loans
                  /\ (req[w].uuid - 1) \notin DOMAIN customers)

\* a create lost its storage connection at the loan insert, after its customer
\* row had been inserted in the open transaction, and has returned
C22_Witness ==
    \E w \in Workers :
        /\ impl = "db"
        /\ Returned(w, "create") /\ Faulted(w)
        /\ req[w].err.where = "failed to insert loan"
        /\ tx[w] = NoTx

-----------------------------------------------------------------------------
(* The field rules, as the claims state them, and the calls they judge     *)

\* a validation helper was applied to a map of this section and has returned
Validated(section) ==
    Returned("w1", "validate") /\ req["w1"].data.section = section

\* the field of the validated map, nil when the key is absent
Field(k) == Lookup(req["w1"].data.input, k)

Accepted == req["w1"].err = NoErr

Rejected == req["w1"].err.kind = "validation"

TenureRule(v) == v.t = "int" /\ v.n \in {3 * k : k \in 1..20}

\* a float64 in hundredths between 100.00 and 50000.00
AmountRule(v) == v.t = "float64" /\ v.n >= 10000 /\ v.n <= 5000000

NonEmptyString(v) == v.t = "string" /\ v.s # <<>>

YearRule(v) == v.t = "int" /\ v.n \in 2020..CurrentYear

\* str is YYYY-MM-DD for a day of the calendar
CalendarDate(str) ==
    /\ Len(str) = 10
    /\ str[5] = "-" /\ str[8] = "-"
    /\ \A i \in {1, 2, 3, 4, 6, 7, 9, 10} : str[i] \in Digits
    /\ LET y == 1000 * DigitVal(str[1]) + 100 * DigitVal(str[2])
                  + 10 * DigitVal(str[3]) + DigitVal(str[4])
           m == 10 * DigitVal(str[6]) + DigitVal(str[7])
           d == 10 * DigitVal(str[9]) + DigitVal(str[10])
           feb == IF y % 400 = 0 \/ (y % 4 = 0 /\ y % 100 # 0) THEN 29 ELSE 28
       IN  /\ m \in 1..12
           /\ d >= 1
           /\ d <= (CASE m = 2 -> feb
                      [] m \in {4, 6, 9, 11} -> 30
                      [] OTHER -> 31)

\* local@domain.tld, the tld of two letters or more
WellFormedEmail(str) ==
    \E at \in 1..Len(str), dot \in 1..Len(str) :
        /\ str[at] = "@" /\ str[dot] = "."
        /\ at > 1 /\ dot > at + 1 /\ Len(str) - dot >= 2
        /\ \A i \in 1..(at - 1) :
              str[i] \in Letters \cup Digits \cup {".", "_", "%", "+", "-"}
        /\ \A i \in (at + 1)..(dot - 1) :
              str[i] \in Letters \cup Digits \cup {".", "-"}
        /\ \A i \in (dot + 1)..Len(str) : str[i] \in Letters

NameRule(v) ==
    /\ v.t = "string" /\ Len(v.s) \in 3..100
    /\ \A i \in 1..Len(v.s) : v.s[i] \in Letters \cup {" "}

DobRule(v) == v.t = "string" /\ CalendarDate(v.s)

IdRule(v) == v.t = "string" /\ Len(v.s) \in 1..25

EmailRule(v) == v.t = "nil" \/ (v.t = "string" /\ (v.s = <<>> \/ WellFormedEmail(v.s)))

PhoneRule(v) ==
    /\ v.t = "string" /\ Len(v.s) \in 6..30
    /\ \A i \in 1..Len(v.s) : v.s[i] \in Digits

LengthIn(v, lo, hi) == v.t = "string" /\ Len(v.s) >= lo /\ Len(v.s) <= hi

AddressRule(v) ==
    /\ v.t = "map"
    /\ LengthIn(Lookup(v.m, "street"), 1, 200)
    /\ LengthIn(Lookup(v.m, "city"), 1, 100)
    /\ LengthIn(Lookup(v.m, "zipcode"), 3, 10)

\* the customer rules that the validated map breaks
BrokenCustomerRules ==
    {k \in {"full_name", "date_of_birth", "id_number", "email", "phone", "address"} :
        ~(CASE k = "full_name" -> NameRule(Field(k))
            [] k = "date_of_birth" -> DobRule(Field(k))
            [] k = "id_number" -> IdRule(Field(k))
            [] k = "email" -> EmailRule(Field(k))
            [] k = "phone" -> PhoneRule(Field(k))
            [] k = "address" -> AddressRule(Field(k)))}

\* C23: given a valid amount, validateProposedLoanInput accepts the tenure
\* exactly when it is an integer t with 3 <= t <= 60 and t mod 3 = 0; every
\* other tenure, a missing or non-integer one included, is rejected with the
\* error of the proposed loan.
C23_TenureAccepted ==
    (Validated("proposed_loan") /\ AmountRule(Field("amount")))
        => /\ Accepted <=> TenureRule(Field("tenure"))
           /\ Accepted \/ (Rejected /\ req["w1"].err.where = "proposed_loan")

\* the largest tenure of the rule was accepted
C23_Witness ==
    /\ Validated("proposed_loan") /\ AmountRule(Field("amount"))
    /\ Field("tenure") = IntV(60)
    /\ Accepted

\* C24: given a valid tenure, validateProposedLoanInput accepts the amount
\* exactly when it is a number a with 100 <= a <= 50000, both bounds
\* included; every other amount, a missing one included, is rejected.
C24_AmountAccepted ==
    (Validated("proposed_loan") /\ TenureRule(Field("tenure")))
        => /\ Accepted <=> AmountRule(Field("amount"))
           /\ Accepted \/ Rejected

\* the upper bound 50000.00 itself was accepted
C24_Witness ==
    /\ Validated("proposed_loan") /\ TenureRule(Field("tenure"))
    /\ Field("amount") = FloatV(50000 * 100)
    /\ Accepted

\* C25: validateCollateralInput accepts exactly when brand and variant are
\* non-empty strings, the manufacturing year is an integer y with
\* 2020 <= y <= the current calendar year, and is_document_complete is
\* present as a boolean; it rejects when any of these fails.
C25_CollateralAccepted ==
    Validated("collateral")
        => /\ Accepted <=> /\ NonEmptyString(Field("brand"))
                           /\ NonEmptyString(Field("variant"))
                           /\ YearRule(Field("manufacturing_year"))
                           /\ Field("is_document_complete").t = "bool"
           /\ Accepted \/ Rejected

\* a collateral of the current year whose documents are not complete was
\* accepted
C25_Witness ==
    /\ Validated("collateral")
    /\ Field("manufacturing_year") = IntV(CurrentYear)
    /\ Field("is_document_complete") = BoolV(FALSE)
    /\ Accepted

\* C26: validateCustomerInput accepts exactly when all the customer rules
\* hold together (full name of 3-100 letters and spaces, date of birth a
\* YYYY-MM-DD date, id number of 1-25 characters, email absent, empty or
\* well formed, phone of 6-30 digits, address present with street 1-200,
\* city 1-100 and zipcode 3-10 characters); breaking any single rule makes
\* it reject.
C26_CustomerAccepted ==
    Validated("customer")
        => /\ Accepted <=> BrokenCustomerRules = {}
           /\ Accepted \/ Rejected

\* a customer that breaks the rule of the zipcode only was rejected
C26_Witness ==
    /\ Validated("customer")
    /\ BrokenCustomerRules = {"address"}
    /\ LengthIn(Lookup(Field("address").m, "zipcode"), 11, 11)
    /\ Rejected

-----------------------------------------------------------------------------
(* C27 *)

\* C27: email is optional: a createDraft whose input is valid in every other
\* field and whose customer section has no email does not crash, and it
\* succeeds and creates the application unless the storage fails or refuses
\* the id-number.
C27_EmailOptional ==
    \A w \in Workers :
        (/\ Returned(w, "create")
         /\ BadSections(req[w].data) = {}
         /\ Lookup(req[w].data.customer.m, "email") = NilV)
        => /\ req[w].err.kind # "panic"
           /\ \/ req[w].err = NoErr /\ req[w].ret.k \in {"id", "app"}
              \/ Faulted(w)
              \/ req[w].err.cause = "unique_violation"

-----------------------------------------------------------------------------
(* C28 *)

\* the collateral categories of the stored applications, pending rows included
StoredCategories ==
    {loans[id].collateral_category : id \in DOMAIN loans}
        \cup UNION {{tx[w].loans[id].collateral_category : id \in DOMAIN tx[w].loans} :
                       w \in Workers}
        \cup {loanApplications[id].collateral.category : id \in DOMAIN loanApplications}

\* the category the create of w was called with is CAR or MOTORCYCLE
CategoryInSet(w) ==
    LET v == Lookup(req[w].data.collateral.m, "category")
    IN  v.t = "string" /\ v.s \in {S_Car, S_Motorcycle}

\* C28: every stored application has a collateral category in
\* {CAR, MOTORCYCLE}; a createDraft whose category is another value or is
\* missing is rejected (an error and no id), and persists nothing.
C28_CategoryClosed ==
    /\ [](StoredCategories \subseteq {S_Car, S_Motorcycle})
    /\ [][\A w \in Workers :
            (Returns(w, "create") /\ ~CategoryInSet(w))
            => /\ req'[w].err # NoErr
               /\ req'[w].ret = RetNil
               /\ tx[w] = NoTx /\ tx'[w] = NoTx
               /\ customers' = customers
               /\ loans' = loans
               /\ loanApplications' = loanApplications]_vars

\* a create with category TRUCK was rejected while an application of a valid
\* category is stored
C28_Witness ==
    \E w \in Workers :
        /\ Returned(w, "create")
        /\ req[w].data.collateral.m = CollateralTruck
        /\ BadSections(req[w].data) = {}
        /\ req[w].err # NoErr
        /\ StoredCategories # {}

-----------------------------------------------------------------------------
(* C29 *)

\* the loan rows of the table and of the open transactions
AllLoanRows ==
    {loans[id] : id \in DOMAIN loans}
        \cup UNION {{tx[w].loans[id] : id \in DOMAIN tx[w].loans} : w \in Workers}

\* C29: in the storage-backed gateway every loan row of every reachable state
\* has deleted = TRUE exactly when its status is CANCELLED, and deleted_at set
\* exactly when deleted = TRUE.
C29_DeletedIffCancelled ==
    \A row \in AllLoanRows :
        /\ row.deleted <=> row.loan_status = "CANCELLED"
        /\ row.deleted_at # "NULL" <=> row.deleted

\* one row is cancelled and deleted, another is submitted and not deleted
C29_Witness ==
    /\ impl = "db"
    /\ \E a, b \in DOMAIN loans :
          /\ loans[a].loan_status = "CANCELLED" /\ loans[a].deleted
          /\ loans[a].deleted_at # "NULL"
          /\ loans[b].loan_status = "SUBMITTED" /\ ~loans[b].deleted
          /\ loans[b].deleted_at = "NULL"

-----------------------------------------------------------------------------
(* C30 *)

\* C30: after any sequence of operations, failed and concurrent creates
\* included, every loan row references an existing customer row and every
\* customer row is referenced by exactly one loan row.
C30_OneLoanPerCustomer ==
    /\ \A id \in DOMAIN loans : loans[id].customer_id \in DOMAIN customers
    /\ \A c \in DOMAIN customers :
          Cardinality({id \in DOMAIN loans : loans[id].customer_id = c}) = 1

\* one create has stored its pair of rows, another inserted its customer and
\* failed on the loan
C30_Witness ==
    /\ impl = "db"
    /\ Cardinality(DOMAIN loans) = 1 /\ Cardinality(DOMAIN customers) = 1
    /\ \E w \in Workers :
          /\ Returned(w, "create")
          /\ req[w].err = StorageErr("failed to insert loan", "connection")
          /\ req[w].uuid \notin DOMAIN loans

-----------------------------------------------------------------------------
(* C31 *)

\* the statuses of the stored applications whose applicant has this id-number
StatusesOfIdNumber(idNumber) ==
    {loans[id].loan_status :
        id \in {l \in DOMAIN loans :
                   /\ loans[l].customer_id \in DOMAIN customers
                   /\ customers[loans[l].customer_id].id_number = idNumber}}

\* C31: in the storage-backed gateway, a createDraft whose id-number was used
\* by an earlier successful createDraft fails and persists nothing, whatever
\* the status of that earlier application: cancelling an application does not
\* free the id-number of its applicant.
C31_IdNumberNeverFreed ==
    [][\A w \in Workers :
          (/\ impl = "db"
           /\ Returns(w, "create")
           /\ StatusesOfIdNumber(Lookup(req[w].data.customer.m, "id_number").s) # {})
          => /\ req'[w].err # NoErr
             /\ req'[w].ret = RetNil
             /\ customers' = customers
             /\ loans' = loans
             /\ tx'[w] = NoTx]_vars

\* a create with the id-number of a cancelled application reached the customer
\* insert and was refused
C31_Witness ==
    \E w \in Workers :
        /\ impl = "db"
        /\ Returned(w, "create")
        /\ req[w].err = StorageErr("failed to insert customer", "unique_violation")
        /\ StatusesOfIdNumber(req[w].data.customer.m.id_number.s) = {"CANCELLED"}

-----------------------------------------------------------------------------
(* C32 *)

\* C32: GetLoanApplication reads only columns that the migrated schema
\* defines and reads the status from loans.loan_status, the column that create,
\* submit and cancel write; hence a getApplication on an existing, non-deleted
\* application returns that application with its current status and never a
\* storage error caused by the query itself.
\* A query that names a column outside the schema ends every read in the
\* storage error "undefined_column".
C32_GetReadsSchemaColumns ==
    \A w \in Workers :
        (impl = "db" /\ Returned(w, "get"))
        => /\ req[w].err.kind = "storage" => Faulted(w)
           /\ (/\ req[w].pre \in {"DRAFT", "SUBMITTED"}
               /\ StatusOf(req[w].uuid) = req[w].pre
               /\ ~Faulted(w))
              => /\ req[w].ret.k = "app"
                 /\ req[w].ret.app.uuid = req[w].uuid
                 /\ req[w].ret.app.status = req[w].pre

-----------------------------------------------------------------------------
(* C33 *)

\* C33: a cancelApplication on an id that matches no stored application
\* returns false together with an error and changes no stored record; when the
\* storage statement itself failed it returns no boolean and the storage
\* error, and changes nothing either.
C33_CancelOnUnknown ==
    [][\A w \in Workers :
          (Returns(w, "cancel") /\ StatusOf(req[w].uuid) = "NONE")
          => /\ UNCHANGED <<customers, loans, loanApplications>>
             /\ req'[w].err # NoErr
             /\ \/ /\ req'[w].ret = RetBool(FALSE)
                   /\ req'[w].err.kind = "not_eligible"
                \/ /\ req'[w].ret = RetNil
                   /\ Faulted(w)']_vars

\* a cancel on an id never handed out was refused while another application
\* is stored
C33_Witness ==
    \E w \in Workers :
        /\ Returned(w, "cancel")
        /\ StatusOf(req[w].uuid) = "NONE"
        /\ req[w].ret = RetBool(FALSE)
        /\ req[w].err.kind = "not_eligible"
        /\ \E id \in UUIDArgs : StatusOf(id) = "DRAFT"

-----------------------------------------------------------------------------
(* C34 *)

\* w takes a step of a call of op
Steps(w, op) == req'[w] # req[w] /\ req'[w].op = op

\* the ids under which an application is stored
StoredIds == IF impl = "db" THEN DOMAIN loans ELSE DOMAIN loanApplications

\* the stored applications other than keep are in the next state what they
\* are now, and so are all the applicant rows
OthersUnchanged(keep) ==
    /\ StoredIds \ keep \subseteq StoredIds'
    /\ \A id \in DOMAIN loans \ keep : loans'[id] = loans[id]
    /\ \A id \in DOMAIN loanApplications \ keep :
          loanApplications'[id] = loanApplications[id]
    /\ \A c \in DOMAIN customers :
          c \in DOMAIN customers' /\ customers'[c] = customers[c]

\* C34: every operation changes at most its target.  getApplication changes
\* no stored record; submit and cancel on id A add no application and leave
\* every application other than A unchanged; createDraft never changes a
\* stored application or applicant, and a successful one adds exactly one
\* application, under an id that was not in use.
C34_ChangesOnlyTarget ==
    [][\A w \in Workers :
          /\ Steps(w, "get") => UNCHANGED <<customers, loans, loanApplications>>
          /\ \A op \in {"submit", "cancel"} :
                Steps(w, op) => /\ OthersUnchanged({req'[w].uuid})
                                /\ StoredIds' = StoredIds
                                /\ customers' = customers
          /\ Steps(w, "create")
             => /\ OthersUnchanged({})
                /\ IF Returns(w, "create") /\ req'[w].err = NoErr
                     THEN /\ req'[w].ret = RetID(req'[w].uuid)
                          /\ req'[w].uuid \notin StoredIds
                          /\ StoredIds' = StoredIds \cup {req'[w].uuid}
                     ELSE StoredIds' = StoredIds]_vars

\* a cancel on one application returned true while another application is
\* still the DRAFT it was created as
C34_Witness ==
    \E w \in Workers :
        /\ Returned(w, "cancel") /\ req[w].ret = RetBool(TRUE)
        /\ StatusOf(req[w].uuid) = "CANCELLED"
        /\ \E id \in StoredIds \ {req[w].uuid} : StatusOf(id) = "DRAFT"

-----------------------------------------------------------------------------
(* C35 *)

\* the first section, in the order proposed_loan, collateral, customer, that
\* is not the valid sample of its kind; "none" when all three are
FirstInvalidSection(d) ==
    IF d.proposed_loan.m # LoanOK THEN "proposed_loan"
    ELSE IF d.collateral.m # CollateralOK THEN "collateral"
    ELSE IF d.customer.m # CustomerJohn THEN "customer"
    ELSE "none"

\* C35: createDraft validates the sections in the order proposed_loan,
\* collateral, customer and stops at the first failure: with several invalid
\* sections the error names proposed_loan if it is invalid, otherwise
\* collateral if it is invalid, otherwise customer; with none invalid the call
\* does not end in a validation error.
C35_FirstInvalidSectionNamed ==
    \A w \in Workers :
        (Returned(w, "create") /\ req[w].data \in SectionDataArgs)
        => IF FirstInvalidSection(req[w].data) = "none"
             THEN req[w].err.kind # "validation"
             ELSE /\ req[w].err.kind = "validation"
                  /\ req[w].err.where = FirstInvalidSection(req[w].data)
                  /\ req[w].ret = RetNil

\* a create whose collateral and customer are both invalid was rejected for
\* its collateral
C35_Witness ==
    \E w \in Workers :
        /\ Returned(w, "create")
        /\ req[w].data = Data(LoanOK, CollateralNoBrand, CustomerBadPhone)
        /\ req[w].err.kind = "validation"
        /\ req[w].err.where = "collateral"

-----------------------------------------------------------------------------
(* C36 *)

\* C36: in the in-memory prototype every read or write of a stored
\* application's fields happens while loanApplicationsMutex is held: no
\* request reads the fields of an application, the resolution of the fields of
\* a getLoanApplication result included, while a submit or cancel is writing
\* them.
C36_FieldsReadUnderMutex ==
    \A r, w \in Workers :
        ~(/\ r # w
          /\ req[r].op = "get" /\ req[r].pc = "resolve"
          /\ Writing(w, req[r].uuid)
          /\ loanApplicationsMutex = w)

-----------------------------------------------------------------------------
(* C37 *)

\* what the caller sees of a returned call: failure, or the kind of value, or
\* the boolean
Outcome(w) ==
    IF req[w].err # NoErr THEN "failure"
    ELSE IF req[w].ret.k = "bool"
      THEN (IF req[w].ret.b THEN "true" ELSE "false")
    ELSE req[w].ret.k

\* both revisions have returned from the same call
BothReturned ==
    /\ req["w1"].pc = "done" /\ req["w2"].pc = "done"
    /\ req["w1"].op = req["w2"].op
    /\ impl = "mem"

\* C37: the in-memory and the storage-backed resolvers agree: for every
\* sequence of createDraft (pairwise distinct id-numbers), submitApplication
\* and cancelApplication calls in which no application is cancelled more than
\* once, and in which the storage does not fail, both return the same
\* success / failure result for every call and end with the same status for
\* every application.
C37_RevisionsAgree ==
    (BothReturned /\ ~StorageFailed)
        => /\ Outcome("w1") = Outcome("w2")
           /\ \A k \in 1..MaxCreates : DBStatus(k) = MemStatus(k)

=============================================================================
